---- MODULE Spec2Model ----
(***************************************************************************)
(* Model of src/gslite.py: the Google Storage client GsClient and its      *)
(* request executor send_request (retry / redirect / backoff loop).        *)
(*                                                                         *)
(* Text that the code takes apart or puts together (URLs, hosts, paths,    *)
(* bodies) is a sequence of one-character strings, so that parsing and     *)
(* formatting are computed, character by character, as the code does.      *)
(* Python's None is the value None below; it is no character sequence.     *)
(***************************************************************************)
EXTENDS Integers, Sequences, FiniteSets, TLC

VARIABLES
  cfg,                \* the client's constructor arguments (ClientConfig)
  backoff_exponent,   \* self.backoff_exponent
  operations,         \* self.operations
  pc,                 \* position of the (single) caller in send_request
  args,               \* the arguments of the running send_request call
  operation,          \* local: operation
  redirect_location,  \* local: redirect_location
  retries,            \* local: retries
  redirects,          \* local: redirects
  outfile,            \* the bytes written to the call's byte sink
  result,             \* how the call ended, and the list it handed over
  attempts,           \* history: _exec_operation invocations of this call
  trace,              \* history: what the transport did in each attempt
  initial_backoff,    \* history: backoff_exponent when the call started
  threads,            \* concurrent callers: the locals and position of each
  overlapped,         \* history: two callers were in send_request at once
  request,            \* the arguments from which one request is built
  path,               \* the value of _get_path for them, None before
  string_to_sign,     \* the text _get_authentication signs, None before
  acl,                \* a GsAccessControlList: its instance data
  xml_str,            \* an AccessControlList document, None before there is one
  parsed,             \* the instance data after parse_xml(xml_str), NoAcl before
  sleeps,             \* history: the seconds of each time.sleep of this call
  open_connections,   \* connections opened by _connect and not yet closed
  infile_pos,         \* the position of the call's byte source (infile)
  sent,               \* history: the body bytes sent in each attempt
  list_str,           \* a ListBucketResult document, None before there is one
  listing             \* the instance data after parse_xml(list_str)

\* The state of the concurrent callers of one client.
conc_vars == <<threads, overlapped>>

\* The state of the construction of one request.
req_vars == <<request, path, string_to_sign>>

\* The state of one ACL object and its document.
xml_vars == <<acl, xml_str, parsed>>

\* The sleeps, the connections and the byte source of a send_request call.
io_vars == <<sleeps, open_connections, infile_pos, sent>>

\* The state of one GsListBucketResult object and its document.
list_vars == <<list_str, listing>>

vars == <<cfg, backoff_exponent, operations, pc, args, operation,
          redirect_location, retries, redirects, outfile, result,
          attempts, trace, initial_backoff, conc_vars, req_vars, xml_vars,
          io_vars, list_vars>>

-----------------------------------------------------------------------------
(* Bounds of the model. *)

\* A call is followed for at most this many attempts.
MaxAttempts == 3

-----------------------------------------------------------------------------
(* Python values. *)

None == <<"None">>

\* dict value standing for "no dict" (GsOperation.__init__: headers = None)
NoneDict == [h \in {"None"} |-> None]

\* Truth value of a str-or-None, as tested by `if x:`.
Truthy(s) == s # None /\ s # <<>>

Last(s) == s[Len(s)]

Min(a, b) == IF a < b THEN a ELSE b

\* s[i:j] with 0-based Python indices, 0 <= i, j.
Slice(s, i, j) == SubSeq(s, i + 1, Min(j, Len(s)))

\* s.find(c, start): 0-based index of the first c at or after start, or -1.
Find(s, c, start) ==
  LET hits == {i \in (start + 1)..Len(s) : s[i] = c}
  IN  IF hits = {} THEN -1 ELSE (CHOOSE i \in hits : \A j \in hits : i <= j) - 1

\* s.rfind(c): 0-based index of the last c, or -1.
RFind(s, c) ==
  LET hits == {i \in 1..Len(s) : s[i] = c}
  IN  IF hits = {} THEN -1 ELSE (CHOOSE i \in hits : \A j \in hits : i >= j) - 1

\* s.split(c): the list of the pieces of s between occurrences of c.
RECURSIVE Split(_, _)
Split(s, c) ==
  LET i == Find(s, c, 0)
  IN  IF i < 0 THEN <<s>>
      ELSE <<Slice(s, 0, i)>> \o Split(Slice(s, i + 1, Len(s)), c)

DigitChars == <<"0", "1", "2", "3", "4", "5", "6", "7", "8", "9">>

DigitValue(c) == (CHOOSE i \in 1..10 : DigitChars[i] = c) - 1

IsDigits(s) ==
  Len(s) > 0 /\ \A i \in 1..Len(s) : \E d \in 1..10 : DigitChars[d] = s[i]

\* int(s) for a string of decimal digits.
RECURSIVE ParseInt(_)
ParseInt(s) ==
  IF Len(s) = 0 THEN 0
  ELSE 10 * ParseInt(SubSeq(s, 1, Len(s) - 1)) + DigitValue(Last(s))

-----------------------------------------------------------------------------
(* Module constants. *)

REDIRECT_CODES == {301, 302, 303, 307}
DEFAULT_SUCCESS_CODES == {200}
DEFAULT_RETRYABLE_CODES == {408, 500, 502, 503, 504}
GET_OBJECT_SUCCESS_CODES == {200, 206}
DEL_BUCKET_SUCCESS_CODES == {204}
DEL_BUCKET_RETRYABLE_CODES == {404, 408, 409, 500, 502, 503, 504}
DEL_OBJECT_SUCCESS_CODES == {204}

DefaultMaxRetries == 5
DefaultMaxRedirects == 10
DefaultPort == 80
BackoffOff == -1
BackoffMax == 5

-----------------------------------------------------------------------------
(* Text constants used as inputs. *)

HostChars == <<"g", "s", "h", "o", "s", "t">>
ProxyChars == <<"p", "r", "o", "x", "y">>
BucketChars == <<"b", "k", "t">>
KeyChars == <<"k", "e", "y">>
AclChars == <<"a", "c", "l">>
UserAgentChars == <<"g", "s", "l", "i", "t", "e", "/", "1", ".", "0">>

\* http://otherhost/bucket2/key2
LocOtherHost ==
  <<"h", "t", "t", "p", ":", "/", "/", "o", "t", "h", "e", "r", "h", "o", "s",
    "t", "/", "b", "u", "c", "k", "e", "t", "2", "/", "k", "e", "y", "2">>

\* http://h2:8080/k?acl
LocWithPort ==
  <<"h", "t", "t", "p", ":", "/", "/", "h", "2", ":", "8", "0", "8", "0", "/",
    "k", "?", "a", "c", "l">>

\* the empty string
LocEmpty == <<>>

OtherHostChars == <<"o", "t", "h", "e", "r", "h", "o", "s", "t">>
OtherPathChars == <<"/", "b", "u", "c", "k", "e", "t", "2", "/", "k", "e", "y", "2">>

\* The body the transport delivers with a response of the given status.
BodyOf(status) ==
  IF status \in {200, 204, 206} THEN <<"a", "b">> ELSE <<"e", "r", "r">>

-----------------------------------------------------------------------------
(* urllib.quote and urlparse.urlparse (Python 2 standard library), as used *)
(* by _get_path, _get_query_string and _create_redirect_operation.         *)

LetterChars ==
  {"a", "b", "c", "d", "e", "f", "g", "h", "i", "j", "k", "l", "m", "n", "o",
   "p", "q", "r", "s", "t", "u", "v", "w", "x", "y", "z"}

\* urllib.always_safe (the characters of the model's alphabet in it)
AlwaysSafe ==
  LetterChars \cup {DigitChars[i] : i \in 1..10} \cup {"_", ".", "-"}

\* urlparse.scheme_chars
SchemeChars ==
  LetterChars \cup {DigitChars[i] : i \in 1..10} \cup {"+", "-", "."}

\* %XX of a character that is not safe
PercentCode(c) ==
  CASE c = " " -> <<"%", "2", "0">>
    [] c = "/" -> <<"%", "2", "F">>
    [] c = "?" -> <<"%", "3", "F">>
    [] c = "&" -> <<"%", "2", "6">>
    [] c = "=" -> <<"%", "3", "D">>
    [] c = ":" -> <<"%", "3", "A">>
    [] c = "#" -> <<"%", "2", "3">>
    [] c = ";" -> <<"%", "3", "B">>
    [] c = "%" -> <<"%", "2", "5">>

\* urllib.quote(s, safe): every character outside always_safe and safe
\* becomes %XX.
RECURSIVE QuoteSafe(_, _)
QuoteSafe(s, safe) ==
  IF Len(s) = 0 THEN <<>>
  ELSE (IF s[1] \in AlwaysSafe \cup safe THEN <<s[1]>> ELSE PercentCode(s[1]))
       \o QuoteSafe(Tail(s), safe)

\* urllib.quote(s, safe=''): the slash is escaped too
QuoteSlashEscaped(s) == QuoteSafe(s, {})

\* urllib.quote(s): the default of safe is '/'.
Quote(s) == QuoteSafe(s, {"/"})

\* The end of the netloc: the first of / ? # at or after index 2, else the
\* end of the string (urlparse._splitnetloc).
NetlocEnd(url) ==
  LET ends == {Find(url, d, 2) : d \in {"/", "?", "#"}} \ {-1}
  IN  IF ends = {} THEN Len(url)
      ELSE CHOOSE i \in ends : \A j \in ends : i <= j

\* urlsplit, first step: the url without its scheme. A scheme is the text
\* before the first ':' when it is not empty and made of scheme characters.
StripScheme(url) ==
  LET colon == Find(url, ":", 0)
  IN  IF colon > 0 /\ \A i \in 1..colon : url[i] \in SchemeChars
      THEN Slice(url, colon + 1, Len(url))
      ELSE url

\* urlsplit, second step: the netloc, when the rest starts with //.
SplitNetloc(url) ==
  IF Slice(url, 0, 2) = <<"/", "/">>
  THEN [netloc |-> Slice(url, 2, NetlocEnd(url)),
        url |-> Slice(url, NetlocEnd(url), Len(url))]
  ELSE [netloc |-> <<>>, url |-> url]

\* urlsplit, third step: the fragment after the first '#' is dropped.
SplitFragment(p) ==
  IF Find(p.url, "#", 0) >= 0
  THEN [p EXCEPT !.url = Slice(p.url, 0, Find(p.url, "#", 0))]
  ELSE p

\* urlsplit, fourth step: the query is the text after the first '?'.
SplitQuery(p) ==
  IF Find(p.url, "?", 0) >= 0
  THEN [netloc |-> p.netloc,
        url |-> Slice(p.url, 0, Find(p.url, "?", 0)),
        query |-> Slice(p.url, Find(p.url, "?", 0) + 1, Len(p.url))]
  ELSE [netloc |-> p.netloc, url |-> p.url, query |-> <<>>]

\* urlparse._splitparams: the index of the ';' that starts the parameters of
\* the last path segment, or -1.
ParamsStart(url) ==
  IF Find(url, "/", 0) >= 0
  THEN Find(url, ";", RFind(url, "/"))
  ELSE Find(url, ";", 0)

\* urlparse, last step: the path is the url without its parameters.
SplitParams(p) ==
  [netloc |-> p.netloc,
   path |-> IF ParamsStart(p.url) >= 0
            THEN Slice(p.url, 0, ParamsStart(p.url)) ELSE p.url,
   query |-> p.query]

\* urlparse.urlparse(url), restricted to the fields the client reads:
\* [netloc, path, query].
UrlParse(location) ==
  SplitParams(SplitQuery(SplitFragment(SplitNetloc(StripScheme(location)))))

-----------------------------------------------------------------------------
(* GsOperation and the helpers that build one. *)

\* GsOperation(): a new operation with no request and no response.
GsOperation ==
  [connection_host |-> <<>>,
   connection_port |-> DefaultPort,
   request_method |-> "",
   request_path_and_query |-> <<>>,
   request_headers |-> NoneDict,
   response_status |-> 0,
   response_headers |-> NoneDict,
   response_error_body |-> None]

\* d.copy() followed by d[name] = value
DictSet(d, name, value) ==
  [h \in (DOMAIN d) \cup {name} |-> IF h = name THEN value ELSE d[h]]

\* The value of the clock when the headers of attempt number n are built,
\* formatted for the Date header.
DateAt(n) == <<"t", DigitChars[n + 1]>>

\* _get_path(bucket, key)
GetPath(bucket, key) ==
  <<"/">>
  \o (IF Truthy(bucket)
      THEN Quote(bucket) \o (IF Truthy(key) THEN <<"/">> \o Quote(key) ELSE <<>>)
      ELSE <<>>)

\* The part of the query string written for the parameters from the i-th on.
\* query_parameters is the sequence of its (name, val) items in the order
\* iteritems() yields them; None and the empty dict, which the code does not
\* tell apart (`if query_parameters:`), are both the empty sequence.
RECURSIVE QueryItems(_, _)
QueryItems(qp, i) ==
  IF i > Len(qp) THEN <<>>
  ELSE (IF i = 1 THEN <<>> ELSE <<"&">>)
       \o qp[i].name
       \o (IF Truthy(qp[i].val) THEN <<"=">> \o Quote(qp[i].val) ELSE <<>>)
       \o QueryItems(qp, i + 1)

\* _get_query_string(query_parameters)
GetQueryString(qp) ==
  IF Len(qp) > 0 THEN <<"?">> \o QueryItems(qp, 1) ELSE <<>>

\* _get_request_headers for a call without infile and without extra headers
\* on a client without credentials: the headers before Content-Length is
\* set for a byte source and before Authorization is added.
GetRequestHeaders(host, n) ==
  [h \in {"Content-Length", "Date", "Host", "User-Agent"} |->
     CASE h = "Content-Length" -> <<"0">>
       [] h = "Date" -> DateAt(n)
       [] h = "Host" -> host
       [] h = "User-Agent" -> UserAgentChars]

\* int(host_and_port[1]) raises ValueError unless the text is decimal digits.
PortError(host_and_port) ==
  Len(host_and_port) > 1 /\ ~IsDigits(host_and_port[2])

\* Whether _create_redirect_operation raises ValueError for this location.
RedirectPortError(c, location) ==
  ~Truthy(c.proxy_host) /\ PortError(Split(UrlParse(location).netloc, ":"))

\* The connection of a redirect operation with the port of the location
\* ignored
RedirectConnectionPort80(c, host_and_port) ==
  IF Truthy(c.proxy_host)
  THEN [host |-> c.proxy_host, port |-> c.proxy_port]
  ELSE [host |-> host_and_port[1], port |-> DefaultPort]

\* The connection host and port of a redirect operation.
RedirectConnection(c, host_and_port) ==
  IF Truthy(c.proxy_host)
  THEN [host |-> c.proxy_host, port |-> c.proxy_port]
  ELSE [host |-> host_and_port[1],
        port |-> IF Len(host_and_port) > 1 THEN ParseInt(host_and_port[2])
                 ELSE DefaultPort]

\* The body of _create_redirect_operation, given parts = urlparse(location).
RedirectOperation(c, previous_operation, parts) ==
  [GsOperation EXCEPT
     !.connection_host =
        RedirectConnection(c, Split(parts.netloc, ":")).host,
     !.connection_port =
        RedirectConnection(c, Split(parts.netloc, ":")).port,
     !.request_method = previous_operation.request_method,
     !.request_path_and_query =
        parts.path
        \o (IF Len(parts.query) > 0 THEN <<"?">> \o parts.query ELSE <<>>),
     !.request_headers =
        DictSet(previous_operation.request_headers, "Host", parts.netloc)]

\* _create_redirect_operation
CreateRedirectOperation(c, previous_operation, location) ==
  RedirectOperation(c, previous_operation, UrlParse(location))

\* _backoff_decrement with the decrement left out
BackoffDecrementNone(b) == b

\* _backoff_decrement
BackoffDecrement(b) == IF b > BackoffOff THEN b - 1 ELSE b

\* _backoff_increment without the test against the maximum
BackoffIncrementNoCap(b) == b + 1

\* _backoff_increment
BackoffIncrement(b) == IF b < BackoffMax THEN b + 1 ELSE b

-----------------------------------------------------------------------------
(* The transport, and one attempt on it. *)

\* The response headers as a dict: the transport sends a location header or
\* none.
HeadersDict(location) ==
  [h \in (IF location = None THEN {} ELSE {"location"}) |-> location]

\* The bytes _read has written to outfile when the read call number failAt
\* (counted from 0) of the response raises: the chunks read before it. With
\* chunk_size = 0 there is one read call, and nothing is written before it.
WrittenBefore(body, chunk_size, failAt) ==
  IF chunk_size > 0 THEN Slice(body, 0, failAt * chunk_size) ELSE <<>>

\* The test of the status before the body is read, always passed
ExecSuccessAlways(a, status) == TRUE

\* The test "Don't put data in outfile unless success status".
ExecSuccess(a, status) == status \in a.success_status_codes

\* Whether _exec_operation reads the response body of this attempt.
ReadsBody(op, a, status) ==
  /\ op.request_method # "HEAD"
  /\ (ExecSuccess(a, status) => a.outfile)

\* _exec_operation(operation, infile=None, outfile, chunk_size,
\* success_status_codes) on a transport that behaves as beh. The result is
\* the operation as the call leaves it (the operation is updated in place,
\* also when the call raises), the bytes written to outfile, and the
\* exception raised ("" for a normal return).
ExecOperation(op, a, beh) ==
  IF beh.kind = "error" /\ beh.stage = "connect"
  THEN [operation |-> op, written |-> <<>>, exc |-> "HTTPException"]
  ELSE
    LET got == [op EXCEPT !.response_status = beh.status,
                          !.response_headers = HeadersDict(beh.location)]
        body == BodyOf(beh.status)
        exc == CASE beh.kind = "response" -> ""
                 [] beh.kind = "incomplete" -> "IncompleteRead"
                 [] beh.kind = "error" -> "HTTPException"
    IN  IF got.request_method # "HEAD"
        THEN IF ExecSuccess(a, beh.status)
             THEN IF a.outfile
                  THEN [operation |-> got,
                        written |-> IF beh.kind = "response" THEN body
                                    ELSE WrittenBefore(body, a.chunk_size,
                                                       beh.failAt),
                        exc |-> exc]
                  ELSE [operation |-> got, written |-> <<>>, exc |-> ""]
             ELSE IF beh.kind = "response"
                  THEN [operation |-> [got EXCEPT !.response_error_body = body],
                        written |-> <<>>, exc |-> ""]
                  ELSE [operation |-> got, written |-> <<>>, exc |-> exc]
        ELSE [operation |-> got, written |-> <<>>, exc |-> ""]

\* 'IncompleteRead: %d bytes read' % n
IncompleteReadMessage(n) ==
  <<"IncompleteRead: ", DigitChars[n + 1], " bytes read">>

-----------------------------------------------------------------------------
(* The text of a request: header names, sorting, and _get_authentication   *)
(* up to the string-to-sign. (The HMAC-SHA1 signature of that string and   *)
(* its base64 encoding are not modelled.)                                  *)

\* The characters with the codes 32 to 126, in the order of their codes
\* (the grave accent, code 96, by its name).
AsciiChars ==
  <<" ", "!", "\"", "#", "$", "%", "&", "'", "(", ")", "*", "+", ",",
    "-", ".", "/", "0", "1", "2", "3", "4", "5", "6", "7", "8", "9", ":",
    ";", "<", "=", ">", "?", "@", "A", "B", "C", "D", "E", "F", "G", "H",
    "I", "J", "K", "L", "M", "N", "O", "P", "Q", "R", "S", "T", "U", "V",
    "W", "X", "Y", "Z", "[", "\\", "]", "^", "_", "grave", "a", "b", "c",
    "d", "e", "f", "g", "h", "i", "j", "k", "l", "m", "n", "o", "p", "q",
    "r", "s", "t", "u", "v", "w", "x", "y", "z", "{", "|", "}", "~">>

\* ord(c)
Ord(c) == 31 + (CHOOSE i \in 1..Len(AsciiChars) : AsciiChars[i] = c)

\* s < t for two str values: the comparison list.sort() uses.
RECURSIVE StrLess(_, _)
StrLess(s, t) ==
  IF Len(t) = 0 THEN FALSE
  ELSE IF Len(s) = 0 THEN TRUE
  ELSE IF s[1] = t[1] THEN StrLess(Tail(s), Tail(t))
  ELSE Ord(s[1]) < Ord(t[1])

\* s.startswith(p)
StartsWith(s, p) == Len(s) >= Len(p) /\ SubSeq(s, 1, Len(p)) = p

\* string.whitespace (the characters of it that the model's texts contain)
Whitespace == {" ", "\t", "\n", "\r"}

RECURSIVE LStrip(_)
LStrip(s) ==
  IF Len(s) > 0 /\ s[1] \in Whitespace THEN LStrip(Tail(s)) ELSE s

RECURSIVE RStrip(_)
RStrip(s) ==
  IF Len(s) > 0 /\ Last(s) \in Whitespace
  THEN RStrip(SubSeq(s, 1, Len(s) - 1)) ELSE s

\* s.strip()
Strip(s) == RStrip(LStrip(s))

\* The characters of a header name.
HeaderChars(name) ==
  CASE name = "Content-Length" -> <<"C", "o", "n", "t", "e", "n", "t", "-", "L", "e", "n", "g", "t", "h">>
    [] name = "Content-MD5" -> <<"C", "o", "n", "t", "e", "n", "t", "-", "M", "D", "5">>
    [] name = "Content-Type" -> <<"C", "o", "n", "t", "e", "n", "t", "-", "T", "y", "p", "e">>
    [] name = "Date" -> <<"D", "a", "t", "e">>
    [] name = "Host" -> <<"H", "o", "s", "t">>
    [] name = "User-Agent" -> <<"U", "s", "e", "r", "-", "A", "g", "e", "n", "t">>
    [] name = "x-goog-acl" -> <<"x", "-", "g", "o", "o", "g", "-", "a", "c", "l">>
    [] name = "x-goog-date" -> <<"x", "-", "g", "o", "o", "g", "-", "d", "a", "t", "e">>
    [] name = "x-goog-meta-a" -> <<"x", "-", "g", "o", "o", "g", "-", "m", "e", "t", "a", "-", "a">>

\* The characters of an HTTP method.
MethodChars(http_method) ==
  CASE http_method = "GET" -> <<"G", "E", "T">>
    [] http_method = "PUT" -> <<"P", "U", "T">>
    [] http_method = "HEAD" -> <<"H", "E", "A", "D">>
    [] http_method = "DELETE" -> <<"D", "E", "L", "E", "T", "E">>

\* d.update(other)
DictUpdate(d, other) ==
  [h \in (DOMAIN d) \cup (DOMAIN other) |->
     IF h \in DOMAIN other THEN other[h] ELSE d[h]]

\* _get_request_headers for a call without infile on a client whose clock
\* reads date: the four headers of the client, then extra_headers.
GetRequestHeadersWith(host, date, extra_headers) ==
  DictUpdate([h \in {"Content-Length", "Date", "Host", "User-Agent"} |->
                CASE h = "Content-Length" -> <<"0">>
                  [] h = "Date" -> date
                  [] h = "Host" -> host
                  [] h = "User-Agent" -> UserAgentChars],
             extra_headers)

\* keys = headers.keys(); keys.sort(), for the keys in names
RECURSIVE SortKeys(_)
SortKeys(names) ==
  IF names = {} THEN <<>>
  ELSE <<CHOOSE x \in names :
           \A y \in names \ {x} : StrLess(HeaderChars(x), HeaderChars(y))>>
       \o SortKeys(names \ {CHOOSE x \in names :
           \A y \in names \ {x} : StrLess(HeaderChars(x), HeaderChars(y))})

XGoogPrefix == <<"x", "-", "g", "o", "o", "g", "-">>

\* The loop over the sorted header keys, from the i-th on.
RECURSIVE ExtensionHeaders(_, _, _)
ExtensionHeaders(headers, keys, i) ==
  IF i > Len(keys) THEN <<>>
  ELSE (IF StartsWith(HeaderChars(keys[i]), XGoogPrefix)
        THEN HeaderChars(keys[i]) \o <<":">> \o headers[keys[i]] \o <<"\n">>
        ELSE <<>>)
       \o ExtensionHeaders(headers, keys, i + 1)

\* The Content-MD5 and Content-Type lines.
StrippedHeader(headers, name) ==
  IF name \in DOMAIN headers THEN Strip(headers[name]) ELSE <<>>

\* The Date line with an x-goog-date header not looked at
DateToSignAlways(headers) ==
  IF "Date" \in DOMAIN headers THEN headers["Date"] ELSE <<>>

\* The Date line.
DateToSign(headers) ==
  IF "x-goog-date" \notin DOMAIN headers /\ "Date" \in DOMAIN headers
  THEN headers["Date"] ELSE <<>>

LocationChars == <<"l", "o", "c", "a", "t", "i", "o", "n">>
LoggingChars == <<"l", "o", "g", "g", "i", "n", "g">>
TorrentChars == <<"t", "o", "r", "r", "e", "n", "t">>
PrefixChars == <<"p", "r", "e", "f", "i", "x">>

\* ('acl', 'location', 'logging', 'torrent')
Subresources == <<AclChars, LocationChars, LoggingChars, TorrentChars>>

\* The keys of the dict query_parameters.
QueryKeys(query_parameters) ==
  {query_parameters[i].name : i \in 1..Len(query_parameters)}

\* The subresource taken from the query parameters in the order the dict
\* lists them, from the i-th on
RECURSIVE SubresourceAsListed(_, _)
SubresourceAsListed(query_parameters, i) ==
  IF i > Len(query_parameters) THEN <<>>
  ELSE IF \E j \in 1..Len(Subresources) :
            Subresources[j] = query_parameters[i].name
  THEN <<"?">> \o query_parameters[i].name
  ELSE SubresourceAsListed(query_parameters, i + 1)

\* The loop over the subresources, from the i-th on: the first that is a key
\* of query_parameters is written, and the loop is left.
RECURSIVE Subresource(_, _)
Subresource(query_parameters, i) ==
  IF i > Len(Subresources) THEN <<>>
  ELSE IF Subresources[i] \in QueryKeys(query_parameters)
  THEN <<"?">> \o Subresources[i]
  ELSE Subresource(query_parameters, i + 1)

\* _get_authentication: the value of string_to_sign when it is signed.
StringToSign(http_method, p, query_parameters, headers) ==
  MethodChars(http_method) \o <<"\n">>
  \o StrippedHeader(headers, "Content-MD5") \o <<"\n">>
  \o StrippedHeader(headers, "Content-Type") \o <<"\n">>
  \o DateToSign(headers) \o <<"\n">>
  \o ExtensionHeaders(headers, SortKeys(DOMAIN headers), 1)
  \o p
  \o (IF Len(query_parameters) > 0 THEN Subresource(query_parameters, 1)
      ELSE <<>>)

\* infile.seek(0, os.SEEK_END); infile.tell(): the size of the byte source
\* (an int), as the decimal digit httplib writes for it; '0' without infile.
ContentLength(infile) ==
  IF infile = None THEN <<"0">> ELSE <<DigitChars[Len(infile) + 1]>>

\* base64.b64encode(h.digest()) for the HMAC-SHA1 of the text with the
\* client's secret: the digest is not computed; the signature of a text is
\* a text that two texts share only if they are the same text.
Signature(text) == <<"h", "m", "a", "c", "(">> \o text \o <<")">>

\* '%s %s:%s' % (self.auth_id, self.access_key, signature)
Authorization(c, text) ==
  <<"G", "O", "O", "G", "1", " ">> \o c.access_key \o <<":">>
  \o Signature(text)

\* The headers with the Authorization header of a client with credentials.
Authorized(c, a, headers) ==
  IF Truthy(c.access_key)
  THEN DictSet(headers, "Authorization",
               Authorization(c, StringToSign(a.http_method,
                                             GetPath(a.bucket, a.key),
                                             a.query_parameters, headers)))
  ELSE headers

\* _get_request_headers(http_method, path, query_parameters, None, infile)
\* when the headers of attempt number n are built.
RequestHeaders(c, a, n) ==
  Authorized(c, a,
             [GetRequestHeaders(c.host, n) EXCEPT
                !["Content-Length"] = ContentLength(a.infile)])

\* _create_init_operation
CreateInitOperation(c, a, n) ==
  [GsOperation EXCEPT
     !.connection_host = IF Truthy(c.proxy_host) THEN c.proxy_host ELSE c.host,
     !.connection_port = IF Truthy(c.proxy_host) THEN c.proxy_port ELSE DefaultPort,
     !.request_method = a.http_method,
     !.request_path_and_query =
        GetPath(a.bucket, a.key) \o GetQueryString(a.query_parameters),
     !.request_headers = RequestHeaders(c, a, n)]

\* What infile.read(chunk_size) calls return from position pos on, until one
\* returns '' (chunk_size > 0); or what one infile.read() returns.
RECURSIVE ReadChunks(_, _, _)
ReadChunks(infile, pos, chunk_size) ==
  IF chunk_size > 0
  THEN IF Len(Slice(infile, pos, pos + chunk_size)) > 0
       THEN Slice(infile, pos, pos + chunk_size)
            \o ReadChunks(infile, pos + chunk_size, chunk_size)
       ELSE <<>>
  ELSE Slice(infile, pos, Len(infile))

\* _write without infile.seek(0): the source is read from where it stands
WriteFromPosition(infile, pos, chunk_size) ==
  ReadChunks(infile, pos, chunk_size)

\* _write(connection, infile, chunk_size) for a source that stands at pos:
\* infile.seek(0), then the bytes handed to connection.send.
Write(infile, pos, chunk_size) == ReadChunks(infile, 0, chunk_size)

\* The seconds of the sleep before an attempt, sleeping only for a positive
\* exponent
NeedBackoffSleepPositive(b) == IF b > 0 THEN <<2 ^ b>> ELSE <<>>

\* "Need backoff sleep?": the seconds _backoff_sleep sleeps (1 << exponent)
\* if the exponent is >= 0, as a list of at most one sleep.
NeedBackoffSleep(b) == IF b >= 0 THEN <<2 ^ b>> ELSE <<>>

\* finally of _exec_operation left out when the try block raised
ClosedOnReturn(connection, exc) == IF connection /\ exc = "" THEN 1 ELSE 0

\* finally: if connection: self._close(connection). The number of
\* connections closed when _exec_operation ends, by return or with exc.
ClosedInFinally(connection, exc) == IF connection THEN 1 ELSE 0

-----------------------------------------------------------------------------
(* xml.dom.minidom, as far as GsAccessControlList uses it: the nodes of a   *)
(* document, toxml() and parseString().                                    *)

\* An Element node; attributes is the sequence of its [name, value] pairs.
Element(tagName, attributes, childNodes) ==
  [nodeType |-> "element", tagName |-> tagName, attributes |-> attributes,
   childNodes |-> childNodes, nodeValue |-> None]

\* A Text node (dom.createTextNode(data)).
TextNode(data) ==
  [nodeType |-> "text", tagName |-> <<>>, attributes |-> <<>>,
   childNodes |-> <<>>, nodeValue |-> data]

\* str(x) for a str or None
Str(x) == IF x = None THEN <<"N", "o", "n", "e">> ELSE x

\* The characters minidom writes for one character of a text or of an
\* attribute value (_write_data).
EscapeChar(c) ==
  CASE c = "&" -> <<"&", "a", "m", "p", ";">>
    [] c = "<" -> <<"&", "l", "t", ";">>
    [] c = ">" -> <<"&", "g", "t", ";">>
    [] c = "\"" -> <<"&", "q", "u", "o", "t", ";">>
    [] OTHER -> <<c>>

RECURSIVE Escape(_)
Escape(s) ==
  IF Len(s) = 0 THEN <<>> ELSE EscapeChar(s[1]) \o Escape(Tail(s))

\* The attributes of a start tag, from the i-th on.
RECURSIVE WriteAttributes(_, _)
WriteAttributes(attributes, i) ==
  IF i > Len(attributes) THEN <<>>
  ELSE <<" ">> \o attributes[i].name \o <<"=", "\"">>
       \o Escape(attributes[i].value) \o <<"\"">>
       \o WriteAttributes(attributes, i + 1)

\* node.writexml without indentation: the text of a node, and of the nodes
\* from the i-th on of a list.
RECURSIVE WriteXml(_)
RECURSIVE WriteNodes(_, _)
WriteXml(node) ==
  IF node.nodeType = "text" THEN Escape(node.nodeValue)
  ELSE <<"<">> \o node.tagName \o WriteAttributes(node.attributes, 1)
       \o (IF Len(node.childNodes) > 0
           THEN <<">">> \o WriteNodes(node.childNodes, 1)
                \o <<"<", "/">> \o node.tagName \o <<">">>
           ELSE <<"/", ">">>)

WriteNodes(nodes, i) ==
  IF i > Len(nodes) THEN <<>>
  ELSE WriteXml(nodes[i]) \o WriteNodes(nodes, i + 1)

\* <?xml version="1.0" ?>
XmlDeclaration ==
  <<"<", "?", "x", "m", "l", " ", "v", "e", "r", "s", "i", "o", "n", "=",
          "\"", "1", ".", "0", "\"", " ", "?", ">">>

\* dom.toxml() of the document whose documentElement is root.
ToXml(root) == XmlDeclaration \o WriteXml(root)

\* The character of an entity reference: the text between & and ;
EntityChar(name) ==
  CASE name = <<"a", "m", "p">> -> "&"
    [] name = <<"l", "t">> -> "<"
    [] name = <<"g", "t">> -> ">"
    [] name = <<"q", "u", "o", "t">> -> "\""

\* The text the parser reports for the written text s.
RECURSIVE Unescape(_)
Unescape(s) ==
  IF Len(s) = 0 THEN <<>>
  ELSE IF s[1] = "&"
  THEN <<EntityChar(Slice(s, 1, Find(s, ";", 0)))>>
       \o Unescape(Slice(s, Find(s, ";", 0) + 1, Len(s)))
  ELSE <<s[1]>> \o Unescape(Tail(s))

\* The attributes written in the text s of a start tag after its name:
\* name="value" pairs, each after a space.
RECURSIVE ParseAttributes(_)
ParseAttributes(s) ==
  IF Find(s, "=", 0) < 0 THEN <<>>
  ELSE <<[name |-> LStrip(Slice(s, 0, Find(s, "=", 0))),
          value |-> Unescape(Slice(s, Find(s, "=", 0) + 2,
                                   Find(s, "\"", Find(s, "=", 0) + 2)))]>>
       \o ParseAttributes(Slice(s, Find(s, "\"", Find(s, "=", 0) + 2) + 1,
                                Len(s)))

\* The name of the tag whose text (between < and >, without a closing /) is s.
TagName(s) == IF Find(s, " ", 0) < 0 THEN s ELSE Slice(s, 0, Find(s, " ", 0))

\* The token for the markup between < and >: a declaration, an end tag, an
\* empty element or a start tag.
TagToken(s) ==
  IF s[1] = "?" THEN [kind |-> "decl", name |-> <<>>, attributes |-> <<>>]
  ELSE IF s[1] = "/"
  THEN [kind |-> "end", name |-> Tail(s), attributes |-> <<>>]
  ELSE IF Last(s) = "/"
  THEN [kind |-> "empty", name |-> TagName(SubSeq(s, 1, Len(s) - 1)),
        attributes |->
          ParseAttributes(Slice(SubSeq(s, 1, Len(s) - 1),
                                Len(TagName(SubSeq(s, 1, Len(s) - 1))),
                                Len(s)))]
  ELSE [kind |-> "start", name |-> TagName(s),
        attributes |-> ParseAttributes(Slice(s, Len(TagName(s)), Len(s)))]

\* The end of the character data that starts at the 0-based index i of s.
TextEnd(s, i) == IF Find(s, "<", i) < 0 THEN Len(s) ELSE Find(s, "<", i)

\* The tokens of the document text s from the 0-based index i on: markup
\* and character data. (An attribute value holds no > : it is written as
\* &gt;.)
RECURSIVE Tokens(_, _)
Tokens(s, i) ==
  IF i >= Len(s) THEN <<>>
  ELSE IF s[i + 1] = "<"
  THEN <<TagToken(Slice(s, i + 1, Find(s, ">", i)))>>
       \o Tokens(s, Find(s, ">", i) + 1)
  ELSE <<[kind |-> "text", name |-> Unescape(Slice(s, i, TextEnd(s, i))),
          attributes |-> <<>>]>>
       \o Tokens(s, TextEnd(s, i))

\* The index of the end tag that closes the element whose content starts at
\* token i, given the number of elements open inside it.
RECURSIVE EndIndex(_, _, _)
EndIndex(tokens, i, depth) ==
  IF tokens[i].kind = "end"
  THEN IF depth = 0 THEN i ELSE EndIndex(tokens, i + 1, depth - 1)
  ELSE IF tokens[i].kind = "start" THEN EndIndex(tokens, i + 1, depth + 1)
  ELSE EndIndex(tokens, i + 1, depth)

\* The nodes built from the tokens i to j: the child nodes of one element.
RECURSIVE BuildNodes(_, _, _)
BuildNodes(tokens, i, j) ==
  IF i > j THEN <<>>
  ELSE IF tokens[i].kind = "start"
  THEN <<Element(tokens[i].name, tokens[i].attributes,
                 BuildNodes(tokens, i + 1, EndIndex(tokens, i + 1, 0) - 1))>>
       \o BuildNodes(tokens, EndIndex(tokens, i + 1, 0) + 1, j)
  ELSE IF tokens[i].kind = "empty"
  THEN <<Element(tokens[i].name, tokens[i].attributes, <<>>)>>
       \o BuildNodes(tokens, i + 1, j)
  ELSE IF tokens[i].kind = "text"
  THEN <<TextNode(tokens[i].name)>> \o BuildNodes(tokens, i + 1, j)
  ELSE BuildNodes(tokens, i + 1, j)

\* The Document node: its child nodes are the nodes of the document.
DocumentOf(tokens) == Element(<<>>, <<>>, BuildNodes(tokens, 1, Len(tokens)))

\* xml.dom.minidom.parseString(xml_str)
ParseString(s) == DocumentOf(Tokens(s, 0))

\* node.getElementsByTagName(name): the elements with that name below the
\* node, in document order; and those at or below the nodes from the i-th
\* on of a list.
RECURSIVE GetElementsByTagName(_, _)
RECURSIVE ElementsIn(_, _, _)
GetElementsByTagName(node, name) == ElementsIn(node.childNodes, name, 1)

ElementsIn(nodes, name, i) ==
  IF i > Len(nodes) THEN <<>>
  ELSE (IF nodes[i].nodeType = "element" /\ nodes[i].tagName = name
        THEN <<nodes[i]>> ELSE <<>>)
       \o ElementsIn(nodes[i].childNodes, name, 1)
       \o ElementsIn(nodes, name, i + 1)

\* elem.getAttribute(name): the value, or '' without such an attribute;
\* looked up from the i-th attribute on.
RECURSIVE GetAttribute(_, _, _)
GetAttribute(attributes, name, i) ==
  IF i > Len(attributes) THEN <<>>
  ELSE IF attributes[i].name = name THEN attributes[i].value
  ELSE GetAttribute(attributes, name, i + 1)

-----------------------------------------------------------------------------
(* GsXmlBase and GsAccessControlList. An ACL object is the record of its    *)
(* instance data [owner_id, owner_name, entries]; an entry is the record of *)
(* the six fields of GsAccessControlList.Entry.                             *)

OwnerTag == <<"O", "w", "n", "e", "r">>
IdTag == <<"I", "D">>
NameTag == <<"N", "a", "m", "e">>
EntriesTag == <<"E", "n", "t", "r", "i", "e", "s">>
EntryTag == <<"E", "n", "t", "r", "y">>
PermissionTag == <<"P", "e", "r", "m", "i", "s", "s", "i", "o", "n">>
ScopeTag == <<"S", "c", "o", "p", "e">>
EmailAddressTag == <<"E", "m", "a", "i", "l", "A", "d", "d", "r", "e", "s", "s">>
DomainTag == <<"D", "o", "m", "a", "i", "n">>
TypeAttribute == <<"t", "y", "p", "e">>
AccessControlListTag ==
  <<"A", "c", "c", "e", "s", "s", "C", "o", "n", "t", "r", "o", "l", "L",
    "i", "s", "t">>

\* value_from_elems reading the first element of elems
ValueFromFirstElem(elems) ==
  IF Len(elems) > 0
  THEN IF Len(elems[1].childNodes) > 0
       THEN Str(Last(elems[1].childNodes).nodeValue)
       ELSE <<>>
  ELSE <<>>

\* GsXmlBase.value_from_elems
ValueFromElems(elems) ==
  IF Len(elems) > 0
  THEN IF Len(Last(elems).childNodes) > 0
       THEN Str(Last(Last(elems).childNodes).nodeValue)
       ELSE <<>>
  ELSE <<>>

\* GsXmlBase.add_text_node: the element appended to the parent node.
AddTextNode(node_name, node_text) ==
  Element(node_name, <<>>, <<TextNode(node_text)>>)

\* `if text: self.add_text_node(...)`: the child nodes this appends.
IfText(node_name, node_text) ==
  IF Len(node_text) > 0 THEN <<AddTextNode(node_name, node_text)>> ELSE <<>>

\* GsAccessControlList.Entry()
EmptyEntry ==
  [permission |-> <<>>, scope_type |-> <<>>, scope_user_id |-> <<>>,
   scope_user_name |-> <<>>, scope_email |-> <<>>, scope_domain |-> <<>>]

\* GsAccessControlList()
EmptyAcl == [owner_id |-> <<>>, owner_name |-> <<>>, entries |-> <<>>]

\* No ACL object: parse_xml has not been called.
NoAcl == [owner_id |-> None, owner_name |-> None, entries |-> <<>>]

\* to_xml: the Owner element, if one is made.
OwnerElems(a) ==
  IF Len(a.owner_id) > 0 \/ Len(a.owner_name) > 0
  THEN <<Element(OwnerTag, <<>>,
                 IfText(IdTag, a.owner_id) \o IfText(NameTag, a.owner_name))>>
  ELSE <<>>

\* to_xml making the Scope element only for an entry with a scope type
ScopeElemsOfTyped(entry) ==
  IF Len(entry.scope_type) > 0
  THEN <<Element(ScopeTag,
                 <<[name |-> TypeAttribute, value |-> entry.scope_type]>>,
                 IfText(IdTag, entry.scope_user_id)
                 \o IfText(NameTag, entry.scope_user_name)
                 \o IfText(EmailAddressTag, entry.scope_email)
                 \o IfText(DomainTag, entry.scope_domain))>>
  ELSE <<>>

\* to_xml: the Scope element of an entry, if one is made.
ScopeElems(entry) ==
  IF \/ Len(entry.scope_type) > 0
     \/ Len(entry.scope_user_id) > 0
     \/ Len(entry.scope_user_name) > 0
     \/ Len(entry.scope_email) > 0
     \/ Len(entry.scope_domain) > 0
  THEN <<Element(ScopeTag,
                 IF Len(entry.scope_type) > 0
                 THEN <<[name |-> TypeAttribute, value |-> entry.scope_type]>>
                 ELSE <<>>,
                 IfText(IdTag, entry.scope_user_id)
                 \o IfText(NameTag, entry.scope_user_name)
                 \o IfText(EmailAddressTag, entry.scope_email)
                 \o IfText(DomainTag, entry.scope_domain))>>
  ELSE <<>>

\* to_xml: the Entry element of an entry.
EntryElem(entry) ==
  Element(EntryTag, <<>>,
          IfText(PermissionTag, entry.permission) \o ScopeElems(entry))

\* to_xml: the Entries element, if one is made.
EntriesElems(a) ==
  IF Len(a.entries) > 0
  THEN <<Element(EntriesTag, <<>>,
                 [i \in 1..Len(a.entries) |-> EntryElem(a.entries[i])])>>
  ELSE <<>>

\* GsAccessControlList.to_xml(pretty=False)
AclToXml(a) ==
  ToXml(Element(AccessControlListTag, <<>>, OwnerElems(a) \o EntriesElems(a)))

\* parse_xml: the body of `for scope_elem in scope_elems`, for one element.
ParseScope(entry, scope_elem) ==
  [entry EXCEPT
     !.scope_type = GetAttribute(scope_elem.attributes, TypeAttribute, 1),
     !.scope_user_id =
        ValueFromElems(GetElementsByTagName(scope_elem, IdTag)),
     !.scope_user_name =
        ValueFromElems(GetElementsByTagName(scope_elem, NameTag)),
     !.scope_email =
        ValueFromElems(GetElementsByTagName(scope_elem, EmailAddressTag)),
     !.scope_domain =
        ValueFromElems(GetElementsByTagName(scope_elem, DomainTag))]

\* parse_xml: the loop over scope_elems from the i-th on.
RECURSIVE ParseScopes(_, _, _)
ParseScopes(entry, scope_elems, i) ==
  IF i > Len(scope_elems) THEN entry
  ELSE ParseScopes(ParseScope(entry, scope_elems[i]), scope_elems, i + 1)

\* parse_xml: the entry made for one Entry element.
ParseEntry(entry_elem) ==
  ParseScopes([EmptyEntry EXCEPT
                 !.permission =
                    ValueFromElems(
                      GetElementsByTagName(entry_elem, PermissionTag))],
              GetElementsByTagName(entry_elem, ScopeTag), 1)

\* parse_xml: the entries appended for the Entry elements of a list.
ParseEntryElems(entry_elems) ==
  [i \in 1..Len(entry_elems) |-> ParseEntry(entry_elems[i])]

\* parse_xml: the loop over entries_elems from the i-th on.
RECURSIVE ParseEntriesElems(_, _)
ParseEntriesElems(entries_elems, i) ==
  IF i > Len(entries_elems) THEN <<>>
  ELSE ParseEntryElems(GetElementsByTagName(entries_elems[i], EntryTag))
       \o ParseEntriesElems(entries_elems, i + 1)

\* parse_xml: the loop over owner_elems; every pass assigns both fields, so
\* the last Owner element decides.
ParseOwner(owner_elems, tag) ==
  IF Len(owner_elems) > 0
  THEN ValueFromElems(GetElementsByTagName(Last(owner_elems), tag))
  ELSE <<>>

\* parse_xml, on the document dom.
ParseDom(dom) ==
  [owner_id |-> ParseOwner(GetElementsByTagName(dom, OwnerTag), IdTag),
   owner_name |-> ParseOwner(GetElementsByTagName(dom, OwnerTag), NameTag),
   entries |-> ParseEntriesElems(GetElementsByTagName(dom, EntriesTag), 1)]

\* GsAccessControlList.parse_xml(xml_str): the instance data afterwards.
ParseXml(text) == ParseDom(ParseString(text))

-----------------------------------------------------------------------------
(* GsListBucketResult. The object is the record of its instance data, with  *)
(* exc, the exception parse_xml raised ("" for none).                       *)

\* The element names of a ListBucketResult document.
ListTag(name) ==
  CASE name = "Prefix" -> <<"P", "r", "e", "f", "i", "x">>
    [] name = "Marker" -> <<"M", "a", "r", "k", "e", "r">>
    [] name = "IsTruncated" ->
         <<"I", "s", "T", "r", "u", "n", "c", "a", "t", "e", "d">>
    [] name = "Contents" -> <<"C", "o", "n", "t", "e", "n", "t", "s">>
    [] name = "Key" -> <<"K", "e", "y">>
    [] name = "LastModified" ->
         <<"L", "a", "s", "t", "M", "o", "d", "i", "f", "i", "e", "d">>
    [] name = "ETag" -> <<"E", "T", "a", "g">>
    [] name = "Size" -> <<"S", "i", "z", "e">>
    [] name = "StorageClass" ->
         <<"S", "t", "o", "r", "a", "g", "e", "C", "l", "a", "s", "s">>
    [] name = "DisplayName" ->
         <<"D", "i", "s", "p", "l", "a", "y", "N", "a", "m", "e">>
    [] name = "CommonPrefixes" ->
         <<"C", "o", "m", "m", "o", "n", "P", "r", "e", "f", "i", "x", "e",
           "s">>
    [] name = "ListBucketResult" ->
         <<"L", "i", "s", "t", "B", "u", "c", "k", "e", "t", "R", "e", "s",
           "u", "l", "t">>

\* No GsListBucketResult data: parse_xml has not been called.
NoListing ==
  [exc |-> "", name |-> None, prefix |-> None, marker |-> None,
   is_truncated |-> None, contents_list |-> <<>>, common_prefixes |-> <<>>]

\* value_from_elems(node.getElementsByTagName(name))
ValueOfTag(node, name) ==
  ValueFromElems(GetElementsByTagName(node, ListTag(name)))

\* parse_xml: the Contents object made for one Contents element.
ParseContents(contents_elem) ==
  [key |-> ValueOfTag(contents_elem, "Key"),
   last_modified |-> ValueOfTag(contents_elem, "LastModified"),
   etag |-> ValueOfTag(contents_elem, "ETag"),
   size |-> ValueOfTag(contents_elem, "Size"),
   storage_class |-> ValueOfTag(contents_elem, "StorageClass"),
   owner_id |->
     ParseOwner(GetElementsByTagName(contents_elem, OwnerTag), IdTag),
   owner_display_name |->
     ParseOwner(GetElementsByTagName(contents_elem, OwnerTag),
                ListTag("DisplayName"))]

\* parse_xml: the Prefix elements the two loops over common_prefixes_elems
\* and prefix_elems visit, in the order they visit them, from the i-th
\* CommonPrefixes element on.
RECURSIVE CommonPrefixElems(_, _)
CommonPrefixElems(common_prefixes_elems, i) ==
  IF i > Len(common_prefixes_elems) THEN <<>>
  ELSE GetElementsByTagName(common_prefixes_elems[i], ListTag("Prefix"))
       \o CommonPrefixElems(common_prefixes_elems, i + 1)

\* How many of the visited Prefix elements are appended: those before the
\* first without child nodes, where childNodes[0] raises IndexError.
Appended(prefix_elems) ==
  IF \E i \in 1..Len(prefix_elems) : Len(prefix_elems[i].childNodes) = 0
  THEN (CHOOSE i \in 1..Len(prefix_elems) :
          /\ Len(prefix_elems[i].childNodes) = 0
          /\ \A j \in 1..(i - 1) : Len(prefix_elems[j].childNodes) > 0) - 1
  ELSE Len(prefix_elems)

\* self.common_prefixes.append(prefix_elem.childNodes[0].nodeValue), for the
\* visited elements that are appended.
CommonPrefixValues(prefix_elems) ==
  [i \in 1..Appended(prefix_elems) |-> prefix_elems[i].childNodes[1].nodeValue]

\* GsListBucketResult.parse_xml, on the document dom.
ListParseDom(dom) ==
  [exc |-> IF Appended(CommonPrefixElems(
                GetElementsByTagName(dom, ListTag("CommonPrefixes")), 1))
              < Len(CommonPrefixElems(
                  GetElementsByTagName(dom, ListTag("CommonPrefixes")), 1))
           THEN "IndexError" ELSE "",
   name |-> ValueFromElems(GetElementsByTagName(dom, NameTag)),
   prefix |-> ValueOfTag(dom, "Prefix"),
   marker |-> ValueOfTag(dom, "Marker"),
   is_truncated |-> ValueOfTag(dom, "IsTruncated"),
   contents_list |->
     [i \in 1..Len(GetElementsByTagName(dom, ListTag("Contents"))) |->
        ParseContents(GetElementsByTagName(dom, ListTag("Contents"))[i])],
   common_prefixes |->
     CommonPrefixValues(CommonPrefixElems(
       GetElementsByTagName(dom, ListTag("CommonPrefixes")), 1))]

\* GsListBucketResult.parse_xml(xml_str): the instance data afterwards.
ListParseXml(text) == ListParseDom(ParseString(text))

-----------------------------------------------------------------------------
(* Inputs. *)

\* Constructor arguments of the clients of the model. No client has
\* credentials (access_key = None), so no Authorization header is computed.
Configs ==
  {[host |-> HostChars, proxy_host |-> None, proxy_port |-> DefaultPort,
    max_retries |-> 0, max_redirects |-> 0,
    access_key |-> None],
   [host |-> HostChars, proxy_host |-> None, proxy_port |-> DefaultPort,
    max_retries |-> 1, max_redirects |-> 1,
    access_key |-> None],
   [host |-> HostChars, proxy_host |-> ProxyChars, proxy_port |-> 8080,
    max_retries |-> 1, max_redirects |-> 1,
    access_key |-> None],
   [host |-> HostChars, proxy_host |-> None, proxy_port |-> DefaultPort,
    max_retries |-> DefaultMaxRetries, max_redirects |-> DefaultMaxRedirects,
    access_key |-> None]}

\* The arguments of a send_request call for which every optional argument
\* has its default. extra_headers is None in all calls of the model; infile
\* is the content of the byte source, or None; outfile is whether the call
\* has a byte sink.
SendRequestArgs(http_method) ==
  [http_method |-> http_method, bucket |-> None, key |-> None,
   infile |-> None,
   outfile |-> FALSE, chunk_size |-> 0, query_parameters |-> <<>>,
   success_status_codes |-> DEFAULT_SUCCESS_CODES,
   retryable_status_codes |-> DEFAULT_RETRYABLE_CODES]

\* The facade operations: the arguments each passes to send_request.
get_service ==
  [SendRequestArgs("GET") EXCEPT !.outfile = TRUE]

get_bucket(bucket) ==
  [SendRequestArgs("GET") EXCEPT !.bucket = bucket, !.outfile = TRUE]

get_bucket_acl(bucket) ==
  [SendRequestArgs("GET") EXCEPT
     !.bucket = bucket, !.outfile = TRUE,
     !.query_parameters = <<[name |-> AclChars, val |-> None]>>]

get_object(bucket, key, chunk_size) ==
  [SendRequestArgs("GET") EXCEPT
     !.bucket = bucket, !.key = key, !.outfile = TRUE,
     !.chunk_size = chunk_size,
     !.success_status_codes = GET_OBJECT_SUCCESS_CODES]

get_object_acl(bucket, key) ==
  [SendRequestArgs("GET") EXCEPT
     !.bucket = bucket, !.key = key, !.outfile = TRUE,
     !.query_parameters = <<[name |-> AclChars, val |-> None]>>]

head_object(bucket, key) ==
  [SendRequestArgs("HEAD") EXCEPT !.bucket = bucket, !.key = key]

\* put_bucket(bucket), with infile, extra_headers and query_parameters None
put_bucket(bucket) ==
  [SendRequestArgs("PUT") EXCEPT !.bucket = bucket]

delete_bucket(bucket) ==
  [SendRequestArgs("DELETE") EXCEPT
     !.bucket = bucket,
     !.success_status_codes = DEL_BUCKET_SUCCESS_CODES,
     !.retryable_status_codes = DEL_BUCKET_RETRYABLE_CODES]

\* delete_object with the status sets of delete_bucket
delete_object_as_bucket(bucket, key) ==
  [SendRequestArgs("DELETE") EXCEPT
     !.bucket = bucket, !.key = key,
     !.success_status_codes = DEL_BUCKET_SUCCESS_CODES,
     !.retryable_status_codes = DEL_BUCKET_RETRYABLE_CODES]

delete_object(bucket, key) ==
  [SendRequestArgs("DELETE") EXCEPT
     !.bucket = bucket, !.key = key,
     !.success_status_codes = DEL_OBJECT_SUCCESS_CODES]

\* The facade calls whose status sets are the defaults of send_request.
DefaultFacadeCalls ==
  {get_service, get_bucket(BucketChars), get_bucket_acl(BucketChars),
   get_object_acl(BucketChars, KeyChars), head_object(BucketChars, KeyChars),
   put_bucket(BucketChars)}

\* The calls of the model: get_bucket_acl, get_object with chunk_size = 1,
\* head_object, delete_bucket and delete_object.
Calls ==
  {get_bucket_acl(BucketChars), get_object(BucketChars, KeyChars, 1),
   head_object(BucketChars, KeyChars), delete_bucket(BucketChars),
   delete_object(BucketChars, KeyChars)}

\* The arguments before the first call.
NoCall ==
  [http_method |-> "", bucket |-> None, key |-> None, infile |-> None,
   outfile |-> FALSE, chunk_size |-> 0, query_parameters |-> <<>>,
   success_status_codes |-> {}, retryable_status_codes |-> {}]

\* A request has at most this many query parameters.
MaxQueryParameters == 2

\* Tue, 01 Jan 2013 00:00:00 GMT
ExampleDateChars ==
  <<"T", "u", "e", ",", " ", "0", "1", " ", "J", "a", "n", " ", "2", "0",
    "1", "3", " ", "0", "0", ":", "0", "0", ":", "0", "0", " ", "G", "M",
    "T">>

ExampleBucketChars == <<"b", "u", "c", "k", "e", "t">>

\* my bucket
MyBucketChars == <<"m", "y", " ", "b", "u", "c", "k", "e", "t">>

\* a/b c
SlashKeyChars == <<"a", "/", "b", " ", "c">>

\* The names and values of query parameters.
QueryNames ==
  {AclChars, LocationChars, LoggingChars, TorrentChars, PrefixChars}

QueryValues == {None, <<"1">>}

\* The dicts of query parameters, each in every order iteritems() can list
\* it in: sequences of items with different names. A subresource has
\* either value, None as in {'acl': None} or a text; the other parameter
\* has a text.
\* The empty sequence is both None and {}.
QueryDicts ==
  {q \in UNION {[1..n -> [name : QueryNames, val : QueryValues]] :
                  n \in 0..MaxQueryParameters} :
     /\ \A i, j \in 1..Len(q) : i # j => q[i].name # q[j].name
     /\ \A i \in 1..Len(q) : q[i].name = PrefixChars => q[i].val # None}

\* The value of each header a caller passes in extra_headers.
ExtraHeaderValue(name) ==
  CASE name = "Content-MD5" -> <<" ", "m", "d", "5", " ">>
    [] name = "Content-Type" -> <<"t", "e", "x", "t", "/", "p", "l", "a", "i", "n">>
    [] name = "x-goog-acl" -> <<"p", "r", "i", "v", "a", "t", "e">>
    [] name = "x-goog-date" -> <<"W", "e", "d", ",", " ", "0", "2", " ", "J", "a", "n", " ", "2", "0",
    "1", "3">>
    [] name = "x-goog-meta-a" -> <<"1">>

\* The dicts a caller passes as extra_headers (the empty one is also None).
ExtraHeaders ==
  {[h \in S |-> ExtraHeaderValue(h)] :
     S \in SUBSET {"Content-MD5", "Content-Type", "x-goog-acl",
                   "x-goog-date", "x-goog-meta-a"}}

\* The arguments from which _create_init_operation builds a request, and
\* the reading of the clock.
Requests ==
  {r \in [http_method : {"GET", "PUT"},
          bucket : {None, ExampleBucketChars, MyBucketChars},
          key : {None, KeyChars, SlashKeyChars},
          query_parameters : QueryDicts,
          extra_headers : ExtraHeaders,
          date : {ExampleDateChars}] :
     <<r.bucket, r.key>> \in {<<None, None>>, <<None, KeyChars>>,
                              <<ExampleBucketChars, KeyChars>>,
                              <<MyBucketChars, None>>,
                              <<MyBucketChars, SlashKeyChars>>}}

\* No request is being built.
NoRequest ==
  [http_method |-> "", bucket |-> None, key |-> None,
   query_parameters |-> <<>>, extra_headers |-> <<>>, date |-> <<>>]

\* An ACL of the model has at most this many entries.
MaxEntries == 2

\* The scope fields of the entries of the model besides scope_type: none;
\* all four; the user id alone; the email address alone.
ScopeFields ==
  {[scope_user_id |-> <<>>, scope_user_name |-> <<>>, scope_email |-> <<>>,
    scope_domain |-> <<>>],
   [scope_user_id |-> <<"7">>, scope_user_name |-> <<"A", "&", "B">>,
    scope_email |-> <<"x", "@", "y">>, scope_domain |-> <<"<", "d", ">">>],
   [scope_user_id |-> <<"7">>, scope_user_name |-> <<>>, scope_email |-> <<>>,
    scope_domain |-> <<>>],
   [scope_user_id |-> <<>>, scope_user_name |-> <<>>,
    scope_email |-> <<"x", "@", "y">>, scope_domain |-> <<>>]}

\* The entries of the model: each field empty or a text, some with the
\* characters & < > " and the space.
Entries ==
  {[permission |-> p, scope_type |-> t, scope_user_id |-> f.scope_user_id,
    scope_user_name |-> f.scope_user_name, scope_email |-> f.scope_email,
    scope_domain |-> f.scope_domain] :
     p \in {<<>>, <<"R", "W">>}, t \in {<<>>, <<"a", " ", "\"", "b">>},
     f \in ScopeFields}

\* The ACL objects of the model: with or without owner fields, with 1 to
\* MaxEntries entries.
Acls ==
  [owner_id : {<<>>, <<"4", "2">>}, owner_name : {<<>>, <<"o", " ", "n">>},
   entries : UNION {[1..n -> Entries] : n \in 1..MaxEntries}]

\* Documents received from the service, in which a tag occurs twice or not at
\* all, or an element has no or several child nodes.
DocTwoIds ==
  <<"<", "A", "c", "c", "e", "s", "s", "C", "o", "n", "t", "r", "o", "l",
    "L", "i", "s", "t", ">", "<", "O", "w", "n", "e", "r", ">", "<", "I",
    "D", ">", "1", "<", "/", "I", "D", ">", "<", "I", "D", ">", "2", "<",
    "/", "I", "D", ">", "<", "/", "O", "w", "n", "e", "r", ">", "<", "/",
    "A", "c", "c", "e", "s", "s", "C", "o", "n", "t", "r", "o", "l", "L",
    "i", "s", "t", ">">>

DocLastIdEmpty ==
  <<"<", "A", "c", "c", "e", "s", "s", "C", "o", "n", "t", "r", "o", "l",
    "L", "i", "s", "t", ">", "<", "O", "w", "n", "e", "r", ">", "<", "I",
    "D", ">", "1", "<", "/", "I", "D", ">", "<", "I", "D", "/", ">", "<",
    "/", "O", "w", "n", "e", "r", ">", "<", "/", "A", "c", "c", "e", "s",
    "s", "C", "o", "n", "t", "r", "o", "l", "L", "i", "s", "t", ">">>

DocNoId ==
  <<"<", "A", "c", "c", "e", "s", "s", "C", "o", "n", "t", "r", "o", "l",
    "L", "i", "s", "t", ">", "<", "O", "w", "n", "e", "r", ">", "<", "N",
    "a", "m", "e", ">", "n", "<", "/", "N", "a", "m", "e", ">", "<", "/",
    "O", "w", "n", "e", "r", ">", "<", "/", "A", "c", "c", "e", "s", "s",
    "C", "o", "n", "t", "r", "o", "l", "L", "i", "s", "t", ">">>

DocIdWithElement ==
  <<"<", "A", "c", "c", "e", "s", "s", "C", "o", "n", "t", "r", "o", "l",
    "L", "i", "s", "t", ">", "<", "O", "w", "n", "e", "r", ">", "<", "I",
    "D", ">", "1", "<", "b", "/", ">", "<", "/", "I", "D", ">", "<", "/",
    "O", "w", "n", "e", "r", ">", "<", "/", "A", "c", "c", "e", "s", "s",
    "C", "o", "n", "t", "r", "o", "l", "L", "i", "s", "t", ">">>

DocTwoPermissions ==
  <<"<", "A", "c", "c", "e", "s", "s", "C", "o", "n", "t", "r", "o", "l",
    "L", "i", "s", "t", ">", "<", "E", "n", "t", "r", "i", "e", "s", ">",
    "<", "E", "n", "t", "r", "y", ">", "<", "P", "e", "r", "m", "i", "s",
    "s", "i", "o", "n", ">", "R", "<", "/", "P", "e", "r", "m", "i", "s",
    "s", "i", "o", "n", ">", "<", "P", "e", "r", "m", "i", "s", "s", "i",
    "o", "n", ">", "W", "<", "/", "P", "e", "r", "m", "i", "s", "s", "i",
    "o", "n", ">", "<", "/", "E", "n", "t", "r", "y", ">", "<", "/", "E",
    "n", "t", "r", "i", "e", "s", ">", "<", "/", "A", "c", "c", "e", "s",
    "s", "C", "o", "n", "t", "r", "o", "l", "L", "i", "s", "t", ">">>

ReceivedDocuments ==
  {DocTwoIds, DocLastIdEmpty, DocNoId, DocIdWithElement, DocTwoPermissions}

\* A listing names at most this many common prefixes.
MaxCommonPrefixes == 2

\* An element with a text, or the empty element for the empty text.
TextElem(tag, text) ==
  Element(tag, <<>>, IF Len(text) > 0 THEN <<TextNode(text)>> ELSE <<>>)

\* The listings the service answers a GET Bucket request with: the bucket
\* name, the prefix and the marker of the request, the objects and the
\* common prefixes (distinct, in any order).
Listings ==
  [name : {BucketChars},
   prefix : {<<>>, <<"p", "/">>},
   marker : {<<>>, <<"m">>},
   is_truncated : {<<"f", "a", "l", "s", "e">>, <<"t", "r", "u", "e">>},
   keys : {<<>>, <<<<"p", "/", "k">>>>},
   common_prefixes :
     {c \in UNION {[1..n -> {<<"p", "/", "a", "/">>, <<"p", "/", "b", "/">>,
                              <<"p", "/", "c", "&", "/">>}] :
                     n \in 0..MaxCommonPrefixes} :
        \A i, j \in 1..Len(c) : i # j => c[i] # c[j]}]

\* The ListBucketResult document of a listing, as the service writes it:
\* Name, Prefix, Marker, IsTruncated, one Contents element per object and
\* one CommonPrefixes element, with a Prefix child, per common prefix.
ListBucketDocument(l) ==
  ToXml(Element(ListTag("ListBucketResult"), <<>>,
    <<TextElem(NameTag, l.name),
      TextElem(ListTag("Prefix"), l.prefix),
      TextElem(ListTag("Marker"), l.marker),
      TextElem(ListTag("IsTruncated"), l.is_truncated)>>
    \o [i \in 1..Len(l.keys) |->
          Element(ListTag("Contents"), <<>>,
            <<TextElem(ListTag("Key"), l.keys[i]),
              TextElem(ListTag("Size"), <<"2">>),
              Element(OwnerTag, <<>>,
                <<TextElem(IdTag, <<"7">>),
                  TextElem(ListTag("DisplayName"), <<"o">>)>>)>>)]
    \o [i \in 1..Len(l.common_prefixes) |->
          Element(ListTag("CommonPrefixes"), <<>>,
            <<TextElem(ListTag("Prefix"), l.common_prefixes[i])>>)]))

\* The documents received.
ListDocuments == {ListBucketDocument(l) : l \in Listings}

\* Response statuses the transport answers with.
Statuses == {200, 204, 206, 301, 404, 409, 500, 503}

\* Values of the location header of a redirect response.
Locations == {LocOtherHost, LocWithPort, LocEmpty}

\* What the transport does in one attempt: it answers with a status (and a
\* location header or none) and delivers the body; or it answers and the
\* read call number failAt of the body raises IncompleteRead, whose partial
\* is the text read (httplib) or a count; or it raises another exception,
\* before the response or while the body is read.
Behaviours ==
  [kind : {"response"}, status : Statuses \ REDIRECT_CODES,
   location : {None}, failAt : {0}, partial : {"str"}, stage : {"read"}]
  \cup
  [kind : {"response"}, status : Statuses \cap REDIRECT_CODES,
   location : Locations \cup {None}, failAt : {0}, partial : {"str"},
   stage : {"read"}]
  \cup
  [kind : {"incomplete"}, status : {200, 503},
   location : {None}, failAt : {0, 1}, partial : {"int", "str"},
   stage : {"read"}]
  \cup
  [kind : {"error"}, status : {200},
   location : {None}, failAt : {0, 1}, partial : {"str"},
   stage : {"connect", "read"}]

-----------------------------------------------------------------------------
(* send_request. *)

NoResult == [kind |-> "", operations |-> <<>>]

\* The callers of the concurrent use of a client, and the locals of a caller
\* that has not entered send_request: its position (pc), its retries, where
\* it goes on after the backoff adjustment (after), the value of the exponent
\* it has loaded (tmp), the history of the operations of its own attempts
\* (own), and how its call ended (result).
Threads == {1, 2}

IdleThread ==
  [pc |-> "idle", retries |-> 0, after |-> "", tmp |-> 0, own |-> <<>>,
   result |-> NoResult]

NoThreads == [t \in Threads |-> IdleThread]

Init ==
  /\ cfg \in Configs
  /\ backoff_exponent = BackoffOff
  /\ operations = <<>>
  /\ pc = "idle"
  /\ args = NoCall
  /\ operation = GsOperation
  /\ redirect_location = None
  /\ retries = 0
  /\ redirects = 0
  /\ outfile = <<>>
  /\ result = NoResult
  /\ attempts = 0
  /\ trace = <<>>
  /\ initial_backoff = BackoffOff
  /\ threads = NoThreads
  /\ overlapped = FALSE
  /\ request = NoRequest
  /\ path = None
  /\ string_to_sign = None
  /\ acl = EmptyAcl
  /\ xml_str = None
  /\ parsed = NoAcl
  /\ sleeps = <<>>
  /\ open_connections = 0
  /\ infile_pos = 0
  /\ sent = <<>>
  /\ list_str = None
  /\ listing = NoListing

\* self.operations = [] left out: the list of the earlier call is kept
OperationsKept(ops) == ops

\* self.operations = []
OperationsReset(ops) == <<>>

\* The positions at which the byte source of a call can stand when the call
\* starts.
InfilePositions(a) ==
  IF a.infile = None THEN {0} ELSE 0..Len(a.infile)

\* A caller enters send_request with a fresh byte sink: the statements before
\* the loop. The local operation (None in the code) is shown as the empty
\* GsOperation; it is not read before an attempt has set it.
SendRequest(a) ==
  /\ pc \in {"idle", "done"}
  /\ args' = a
  /\ operations' = OperationsReset(operations)
  /\ operation' = GsOperation
  /\ redirect_location' = None
  /\ retries' = 0
  /\ redirects' = 0
  /\ pc' = "while"
  /\ outfile' = <<>>
  /\ result' = NoResult
  /\ attempts' = 0
  /\ trace' = <<>>
  /\ initial_backoff' = backoff_exponent
  /\ sleeps' = <<>>
  /\ sent' = <<>>
  /\ infile_pos' \in InfilePositions(a)
  /\ UNCHANGED <<cfg, backoff_exponent, open_connections, conc_vars,
                 req_vars, xml_vars, list_vars>>

\* The test of the while loop with < for <=
LoopConditionStrict ==
  retries < cfg.max_retries /\ redirects < cfg.max_redirects

\* The test of the while loop with or for and
LoopConditionEither ==
  retries <= cfg.max_retries \/ redirects <= cfg.max_redirects

\* The test of the while loop.
LoopCondition ==
  retries <= cfg.max_retries /\ redirects <= cfg.max_redirects

\* The call leaves send_request: by return ("returned") or by an exception.
Leave(kind, ops) ==
  /\ pc' = "done"
  /\ result' = [kind |-> kind, operations |-> ops]

\* The operation of the next attempt: the statements under "Prepare
\* operation".
PrepareOperation ==
  IF Truthy(redirect_location)
  THEN CreateRedirectOperation(cfg, operation, redirect_location)
  ELSE CreateInitOperation(cfg, args, attempts)

\* Whether the transport can behave as beh in an attempt for operation op:
\* a read of the body fails only in an attempt that reads the body.
Applicable(beh, op) ==
  \/ beh.kind = "response"
  \/ beh.kind = "error" /\ beh.stage = "connect"
  \/ ReadsBody(op, args, beh.status)

\* The success test with every 2xx status taken for a success
IsSuccessAny2xx(a, status) == status \in 200..299

\* The success test made after the redirect test
IsSuccessAfterRedirect(a, status) ==
  status \in a.success_status_codes \ REDIRECT_CODES

\* The tests of the if / elif chain on the response status.
IsSuccess(a, status) == status \in a.success_status_codes

IsRedirect(status) == status \in REDIRECT_CODES

\* The retryable test with every status from 400 on taken for retryable
IsRetryableAnyError(a, status) == status >= 400

IsRetryable(a, status) == status \in a.retryable_status_codes

\* finally: the list is replaced by the operation instead of extended
AppendOperationReplace(ops, op) == <<op>>

\* finally: self.operations.append(operation)
AppendOperation(ops, op) == Append(ops, op)

\* The redirect operation built on the headers dict of the previous
\* operation itself, without copy(): setting Host changes the recorded
\* operation too
OperationsAliased ==
  IF Truthy(redirect_location) /\ operations # <<>>
  THEN [operations EXCEPT
          ![Len(operations)].request_headers =
             DictSet(@, "Host", UrlParse(redirect_location).netloc)]
  ELSE operations

\* self.operations after "Prepare operation": the redirect operation gets a
\* copy of the headers (previous_operation.request_headers.copy()), so the
\* operations recorded are as they were.
OperationsAfterPrepare == operations

\* redirect_location kept after the redirect operation was built
LocationKept == redirect_location

\* The local redirect_location after "Prepare operation": a location that
\* was followed is reset to None.
LocationAfterPrepare ==
  IF Truthy(redirect_location) THEN None ELSE redirect_location

\* The handler of httplib.IncompleteRead, and the finally clause.
OnIncompleteRead(beh, op) ==
  IF beh.partial = "int"
  THEN /\ operation' = [op EXCEPT !.response_error_body =
                                     IncompleteReadMessage(beh.failAt)]
       /\ operations' = AppendOperation(OperationsAfterPrepare, operation')
       /\ retries' = retries + 1
       /\ backoff_exponent' = BackoffIncrement(backoff_exponent)
       /\ redirect_location' = LocationAfterPrepare
       /\ UNCHANGED <<redirects, pc, result>>
  ELSE \* '%d' % e.partial raises TypeError when partial is text
       /\ operation' = op
       /\ operations' = AppendOperation(OperationsAfterPrepare, op)
       /\ Leave("TypeError", <<>>)
       /\ redirect_location' = LocationAfterPrepare
       /\ UNCHANGED <<backoff_exponent, retries, redirects>>

\* Any other exception handled as an incomplete read is: counted as a retry
OnExceptionRetried(exc, op) ==
  /\ operation' = op
  /\ operations' = AppendOperation(OperationsAfterPrepare, op)
  /\ retries' = retries + 1
  /\ backoff_exponent' = BackoffIncrement(backoff_exponent)
  /\ redirect_location' = LocationAfterPrepare
  /\ UNCHANGED <<redirects, pc, result>>

\* Any other exception of _exec_operation leaves the call, through the
\* finally clause.
OnException(exc, op) ==
  /\ operation' = op
  /\ operations' = AppendOperation(OperationsAfterPrepare, op)
  /\ Leave(exc, <<>>)
  /\ redirect_location' = LocationAfterPrepare
  /\ UNCHANGED <<backoff_exponent, retries, redirects>>

\* The if / elif chain with a redirect counted as a retry as well
OnResponseRetryCounted(op) ==
  /\ operation' = op
  /\ operations' = AppendOperation(OperationsAfterPrepare, op)
  /\ IF IsSuccess(args, op.response_status)
     THEN /\ backoff_exponent' = BackoffDecrement(backoff_exponent)
          /\ Leave("returned", operations')
          /\ redirect_location' = LocationAfterPrepare
          /\ UNCHANGED <<retries, redirects>>
     ELSE IF IsRedirect(op.response_status)
     THEN /\ backoff_exponent' = BackoffDecrement(backoff_exponent)
          /\ IF "location" \in DOMAIN op.response_headers
             THEN /\ redirect_location' = op.response_headers["location"]
                  /\ redirects' = redirects + 1
                  /\ retries' = retries + 1
                  /\ UNCHANGED <<pc, result>>
             ELSE \* operation.response_headers['location'] raises KeyError
                  /\ Leave("KeyError", <<>>)
                  /\ redirect_location' = LocationAfterPrepare
                  /\ UNCHANGED <<retries, redirects>>
     ELSE IF IsRetryable(args, op.response_status)
     THEN /\ backoff_exponent' = BackoffIncrement(backoff_exponent)
          /\ retries' = retries + 1
          /\ redirect_location' = LocationAfterPrepare
          /\ UNCHANGED <<redirects, pc, result>>
     ELSE /\ backoff_exponent' = BackoffIncrement(backoff_exponent)
          /\ pc' = "raise"
          /\ redirect_location' = LocationAfterPrepare
          /\ UNCHANGED <<retries, redirects, result>>

\* The finally clause and the if / elif chain on the response status, after
\* _exec_operation returned op.
OnResponse(op) ==
  /\ operation' = op
  /\ operations' = AppendOperation(OperationsAfterPrepare, op)
  /\ IF IsSuccess(args, op.response_status)
     THEN /\ backoff_exponent' = BackoffDecrement(backoff_exponent)
          /\ Leave("returned", operations')
          /\ redirect_location' = LocationAfterPrepare
          /\ UNCHANGED <<retries, redirects>>
     ELSE IF IsRedirect(op.response_status)
     THEN /\ backoff_exponent' = BackoffDecrement(backoff_exponent)
          /\ IF "location" \in DOMAIN op.response_headers
             THEN /\ redirect_location' = op.response_headers["location"]
                  /\ redirects' = redirects + 1
                  /\ UNCHANGED <<retries, pc, result>>
             ELSE \* operation.response_headers['location'] raises KeyError
                  /\ Leave("KeyError", <<>>)
                  /\ redirect_location' = LocationAfterPrepare
                  /\ UNCHANGED <<retries, redirects>>
     ELSE IF IsRetryable(args, op.response_status)
     THEN /\ backoff_exponent' = BackoffIncrement(backoff_exponent)
          /\ retries' = retries + 1
          /\ redirect_location' = LocationAfterPrepare
          /\ UNCHANGED <<redirects, pc, result>>
     ELSE /\ backoff_exponent' = BackoffIncrement(backoff_exponent)
          /\ pc' = "raise"
          /\ redirect_location' = LocationAfterPrepare
          /\ UNCHANGED <<retries, redirects, result>>

\* The try statement of the loop body, on the outcome exec of
\* _exec_operation.
Dispose(beh, exec) ==
  /\ outfile' = outfile \o exec.written
  /\ IF exec.exc = "IncompleteRead" THEN OnIncompleteRead(beh, exec.operation)
     ELSE IF exec.exc # "" THEN OnException(exec.exc, exec.operation)
     ELSE OnResponse(exec.operation)

\* Whether _exec_operation gets as far as writing the data: an error while
\* connecting or sending the headers comes before it.
WritesBody(beh) == ~(beh.kind = "error" /\ beh.stage = "connect")

\* The position of the byte source after "Prepare operation":
\* _get_request_headers, which only _create_init_operation calls, has moved
\* it to the end (infile.seek(0, os.SEEK_END)).
PositionAfterPrepare ==
  IF args.infile # None /\ ~Truthy(redirect_location)
  THEN Len(args.infile) ELSE infile_pos

\* The bytes of the byte source sent in the attempt.
BodySent(a, beh, pos) ==
  IF a.infile # None /\ WritesBody(beh)
  THEN Write(a.infile, pos, a.chunk_size) ELSE <<>>

\* The position of the byte source after the attempt: at the end once
\* _write has read it.
PositionAfterWrite(a, beh) ==
  IF a.infile # None /\ WritesBody(beh)
  THEN Len(a.infile) ELSE PositionAfterPrepare

\* The attempt for the prepared operation op on a transport that behaves as
\* beh. redirect_location is reset when a redirect operation was prepared.
Attempt(beh, op) ==
  /\ Applicable(beh, op)
  /\ attempts' = attempts + 1
  /\ trace' = Append(trace, beh)
  /\ Dispose(beh, ExecOperation(op, args, beh))
  /\ sent' = Append(sent, BodySent(args, beh, PositionAfterPrepare))
  /\ infile_pos' = PositionAfterWrite(args, beh)
  /\ open_connections' =
       open_connections + 1
       - ClosedInFinally(TRUE, ExecOperation(op, args, beh).exc)
  /\ UNCHANGED <<cfg, args, initial_backoff, conc_vars, req_vars,
                 xml_vars, list_vars>>

\* One pass of the loop body, on a transport that behaves as beh.
Iteration(beh) ==
  /\ pc = "while"
  /\ LoopCondition
  /\ attempts < MaxAttempts
  /\ sleeps' = sleeps \o NeedBackoffSleep(backoff_exponent)
  /\ IF Truthy(redirect_location) /\ RedirectPortError(cfg, redirect_location)
     THEN \* _create_redirect_operation raises: nothing is appended
          /\ Leave("ValueError", <<>>)
          /\ UNCHANGED <<cfg, backoff_exponent, operations, args, operation,
                         redirect_location, retries, redirects, outfile,
                         attempts, trace, initial_backoff, conc_vars, req_vars,
                         xml_vars, list_vars, open_connections, infile_pos,
                         sent>>
     ELSE Attempt(beh, PrepareOperation)

\* The loop is left without a return (its test fails, or break):
\* raise GsError('Service Failure', self.operations).
ServiceFailure ==
  /\ \/ pc = "raise"
     \/ pc = "while" /\ ~LoopCondition
  /\ Leave("GsError", operations)
  /\ UNCHANGED <<cfg, backoff_exponent, operations, args, operation,
                 redirect_location, retries, redirects, outfile, attempts,
                 trace, initial_backoff, conc_vars, req_vars,
                 xml_vars, io_vars, list_vars>>

Next ==
  \/ \E a \in Calls : SendRequest(a)
  \/ \E beh \in Behaviours : Iteration(beh)
  \/ ServiceFailure

Spec == Init /\ [][Next]_vars

\* The calling thread runs on: every transport call and every sleep returns,
\* so a pass of the loop body that can be made is made, and the raise after
\* the loop is reached.
\* This is followed for the clients whose max_retries + max_redirects + 1
\* attempts the model follows to the end, on a transport whose redirect
\* responses have no location header or an empty one.
LiveConfigs ==
  {c \in Configs : c.max_retries + c.max_redirects + 1 <= MaxAttempts}

LiveBehaviours == {beh \in Behaviours : beh.location \in {None, LocEmpty}}

LiveInit == Init /\ cfg \in LiveConfigs

LiveNext ==
  \/ \E a \in Calls : SendRequest(a)
  \/ \E beh \in LiveBehaviours : Iteration(beh)
  \/ ServiceFailure

SpecLive ==
  /\ LiveInit
  /\ [][LiveNext]_vars
  /\ WF_vars(\E beh \in LiveBehaviours : Iteration(beh))
  /\ WF_vars(ServiceFailure)

\* Calls with a byte source, calls of send_request with status sets of the
\* caller, and clients with credentials.

\* The access key of a client with credentials (access_key and secret set).
AccessKeyChars == <<"k", "e", "y">>

\* The content of the byte source of a put_object call.
InfileChars == <<"a", "b", "c">>

\* Clients with credentials, without and with a proxy.
DirectConfigs ==
  {[host |-> HostChars, proxy_host |-> None, proxy_port |-> DefaultPort,
    max_retries |-> 1, max_redirects |-> 1,
    access_key |-> AccessKeyChars],
   [host |-> HostChars, proxy_host |-> ProxyChars, proxy_port |-> 8080,
    max_retries |-> 1, max_redirects |-> 1,
    access_key |-> AccessKeyChars]}

\* put_object(bucket, key, infile, chunk_size=chunk_size)
put_object(bucket, key, infile, chunk_size) ==
  [SendRequestArgs("PUT") EXCEPT
     !.bucket = bucket, !.key = key, !.infile = infile,
     !.chunk_size = chunk_size]

\* send_request('GET', bucket=bucket, success_status_codes=...,
\* retryable_status_codes=...)
send_request(bucket, success_status_codes, retryable_status_codes) ==
  [SendRequestArgs("GET") EXCEPT
     !.bucket = bucket,
     !.success_status_codes = success_status_codes,
     !.retryable_status_codes = retryable_status_codes]

\* put_object with all bytes in one write and in chunks of two bytes;
\* send_request with a redirect code in the success set, and with a redirect
\* code in the retryable set.
DirectCalls ==
  {put_object(BucketChars, KeyChars, InfileChars, 0),
   put_object(BucketChars, KeyChars, InfileChars, 2),
   send_request(BucketChars, {200, 301}, DEFAULT_RETRYABLE_CODES),
   send_request(BucketChars, DEFAULT_SUCCESS_CODES, {301, 503})}

DirectInit ==
  /\ cfg \in DirectConfigs
  /\ backoff_exponent = BackoffOff
  /\ operations = <<>>
  /\ pc = "idle"
  /\ args = NoCall
  /\ operation = GsOperation
  /\ redirect_location = None
  /\ retries = 0
  /\ redirects = 0
  /\ outfile = <<>>
  /\ result = NoResult
  /\ attempts = 0
  /\ trace = <<>>
  /\ initial_backoff = BackoffOff
  /\ threads = NoThreads
  /\ overlapped = FALSE
  /\ request = NoRequest
  /\ path = None
  /\ string_to_sign = None
  /\ acl = EmptyAcl
  /\ xml_str = None
  /\ parsed = NoAcl
  /\ sleeps = <<>>
  /\ open_connections = 0
  /\ infile_pos = 0
  /\ sent = <<>>
  /\ list_str = None
  /\ listing = NoListing

DirectNext ==
  \/ \E a \in DirectCalls : SendRequest(a)
  \/ \E beh \in Behaviours : Iteration(beh)
  \/ ServiceFailure

SpecDirect == DirectInit /\ [][DirectNext]_vars

-----------------------------------------------------------------------------
(* Two callers in send_request on one client at the same time, without a   *)
(* lock. self.operations and self.backoff_exponent are shared; the locals  *)
(* of send_request are per caller. A step is what runs between two points  *)
(* where the interpreter can switch threads: a statement that reads or     *)
(* writes a shared attribute once; `self.backoff_exponent += 1` is a load  *)
(* and a store. A caller makes one call, without infile and without        *)
(* redirects (no attempt is answered with a redirect status).              *)

\* The call of each caller.
ThreadCall(t) ==
  IF t = 1 THEN get_object(BucketChars, KeyChars, 0)
  ELSE delete_bucket(BucketChars)

\* Clients that are used concurrently.
ConcConfigs ==
  {[host |-> HostChars, proxy_host |-> None, proxy_port |-> DefaultPort,
    max_retries |-> 0, max_redirects |-> 0,
    access_key |-> None],
   [host |-> HostChars, proxy_host |-> None, proxy_port |-> DefaultPort,
    max_retries |-> 1, max_redirects |-> 1,
    access_key |-> None]}

\* Response statuses the transport answers a concurrent caller with.
ConcStatuses == {200, 204, 404, 503}

\* A complete response with the given status.
ResponseOf(status) ==
  [kind |-> "response", status |-> status, location |-> None, failAt |-> 0,
   partial |-> "str", stage |-> "read"]

\* The client was used by one caller at a time before: the exponent is any
\* value such calls leave.
ConcInit ==
  /\ cfg \in ConcConfigs
  /\ backoff_exponent \in BackoffOff..BackoffMax
  /\ operations = <<>>
  /\ pc = "idle"
  /\ args = NoCall
  /\ operation = GsOperation
  /\ redirect_location = None
  /\ retries = 0
  /\ redirects = 0
  /\ outfile = <<>>
  /\ result = NoResult
  /\ attempts = 0
  /\ trace = <<>>
  /\ initial_backoff = BackoffOff
  /\ threads = NoThreads
  /\ overlapped = FALSE
  /\ request = NoRequest
  /\ path = None
  /\ string_to_sign = None
  /\ acl = EmptyAcl
  /\ xml_str = None
  /\ parsed = NoAcl
  /\ sleeps = <<>>
  /\ open_connections = 0
  /\ infile_pos = 0
  /\ sent = <<>>
  /\ list_str = None
  /\ listing = NoListing

\* What a step of a concurrent caller leaves alone.
ConcFrame ==
  UNCHANGED <<cfg, pc, args, operation, redirect_location, retries,
              redirects, outfile, result, attempts, trace, initial_backoff,
              req_vars, xml_vars, io_vars, list_vars>>

\* Caller t is inside send_request.
Inside(t) == threads[t].pc \notin {"idle", "done"}

\* Caller t enters send_request: self.operations = [] and the locals.
ConcSendRequest(t) ==
  /\ threads[t].pc = "idle"
  /\ operations' = OperationsReset(operations)
  /\ threads' = [threads EXCEPT ![t].pc = "while"]
  /\ overlapped' = (overlapped \/ \E u \in Threads \ {t} : Inside(u))
  /\ UNCHANGED backoff_exponent
  /\ ConcFrame

\* The test of the while loop for caller t.
ConcLoopCondition(t) == threads[t].retries <= cfg.max_retries

\* The operation of the attempt of caller t that is answered with status.
ConcOperation(t, status) ==
  ExecOperation(CreateInitOperation(cfg, ThreadCall(t), Len(threads[t].own)),
                ThreadCall(t), ResponseOf(status)).operation

\* One pass of the loop body of caller t up to the adjustment of the
\* backoff: the attempt, the append of the finally clause to the list that
\* self.operations is bound to now, and the branch on the status.
ConcIteration(t, status) ==
  /\ threads[t].pc = "while"
  /\ ConcLoopCondition(t)
  /\ Len(threads[t].own) < MaxAttempts
  /\ operations' = AppendOperation(operations, ConcOperation(t, status))
  /\ threads' =
       [threads EXCEPT
          ![t].own = Append(@, ConcOperation(t, status)),
          ![t].pc = IF IsSuccess(ThreadCall(t), status) THEN "dec_test"
                    ELSE "inc_test",
          ![t].after = IF IsSuccess(ThreadCall(t), status) THEN "return"
                       ELSE IF IsRetryable(ThreadCall(t), status) THEN "while"
                       ELSE "raise",
          ![t].retries = IF /\ ~IsSuccess(ThreadCall(t), status)
                            /\ IsRetryable(ThreadCall(t), status)
                         THEN @ + 1 ELSE @]
  /\ UNCHANGED <<backoff_exponent, overlapped>>
  /\ ConcFrame

\* The test of _backoff_increment, always passed
BackoffIncrementTestAlways(b) == TRUE

\* The test of _backoff_increment: if self.backoff_exponent < 5
BackoffIncrementTest(b) == b < BackoffMax

\* The test of _backoff_decrement: if self.backoff_exponent > -1
BackoffDecrementTest(b) == b > BackoffOff

\* Caller t evaluates the test of _backoff_increment or _backoff_decrement.
ConcBackoffTest(t) ==
  /\ threads[t].pc \in {"inc_test", "dec_test"}
  /\ threads' =
       [threads EXCEPT
          ![t].pc =
             IF threads[t].pc = "inc_test"
             THEN IF BackoffIncrementTest(backoff_exponent)
                  THEN "inc_load" ELSE threads[t].after
             ELSE IF BackoffDecrementTest(backoff_exponent)
                  THEN "dec_load" ELSE threads[t].after]
  /\ UNCHANGED <<backoff_exponent, operations, overlapped>>
  /\ ConcFrame

\* Caller t loads self.backoff_exponent for += 1 or -= 1.
ConcBackoffLoad(t) ==
  /\ threads[t].pc \in {"inc_load", "dec_load"}
  /\ threads' =
       [threads EXCEPT
          ![t].tmp = backoff_exponent,
          ![t].pc = IF threads[t].pc = "inc_load" THEN "inc_store"
                    ELSE "dec_store"]
  /\ UNCHANGED <<backoff_exponent, operations, overlapped>>
  /\ ConcFrame

\* Caller t stores the sum or the difference in self.backoff_exponent.
ConcBackoffStore(t) ==
  /\ threads[t].pc \in {"inc_store", "dec_store"}
  /\ backoff_exponent' =
       IF threads[t].pc = "inc_store" THEN threads[t].tmp + 1
       ELSE threads[t].tmp - 1
  /\ threads' = [threads EXCEPT ![t].pc = threads[t].after]
  /\ UNCHANGED <<operations, overlapped>>
  /\ ConcFrame

\* Caller t leaves send_request: return self.operations after a success;
\* raise GsError('Service Failure', self.operations) when the loop is left.
ConcLeave(t) ==
  /\ IF threads[t].pc = "while" THEN ~ConcLoopCondition(t)
     ELSE threads[t].pc \in {"return", "raise"}
  /\ threads' =
       [threads EXCEPT
          ![t].pc = "done",
          ![t].result =
             [kind |-> IF threads[t].pc = "return" THEN "returned"
                       ELSE "GsError",
              operations |-> operations]]
  /\ UNCHANGED <<backoff_exponent, operations, overlapped>>
  /\ ConcFrame

ConcNext ==
  \E t \in Threads :
    \/ ConcSendRequest(t)
    \/ \E status \in ConcStatuses : ConcIteration(t, status)
    \/ ConcBackoffTest(t)
    \/ ConcBackoffLoad(t)
    \/ ConcBackoffStore(t)
    \/ ConcLeave(t)

SpecConc == ConcInit /\ [][ConcNext]_vars

-----------------------------------------------------------------------------
(* The construction of one request by _create_init_operation on a client   *)
(* with credentials: the path, then the string-to-sign.                    *)

\* The client that builds the request: the defaults of the constructor.
RequestConfig ==
  [host |-> HostChars, proxy_host |-> None, proxy_port |-> DefaultPort,
   max_retries |-> DefaultMaxRetries, max_redirects |-> DefaultMaxRedirects,
    access_key |-> None]

RequestInit ==
  /\ cfg = RequestConfig
  /\ backoff_exponent = BackoffOff
  /\ operations = <<>>
  /\ pc = "idle"
  /\ args = NoCall
  /\ operation = GsOperation
  /\ redirect_location = None
  /\ retries = 0
  /\ redirects = 0
  /\ outfile = <<>>
  /\ result = NoResult
  /\ attempts = 0
  /\ trace = <<>>
  /\ initial_backoff = BackoffOff
  /\ threads = NoThreads
  /\ overlapped = FALSE
  /\ request \in Requests
  /\ path = None
  /\ string_to_sign = None
  /\ acl = EmptyAcl
  /\ xml_str = None
  /\ parsed = NoAcl
  /\ sleeps = <<>>
  /\ open_connections = 0
  /\ infile_pos = 0
  /\ sent = <<>>
  /\ list_str = None
  /\ listing = NoListing

\* What the construction of a request leaves alone.
RequestFrame ==
  UNCHANGED <<cfg, backoff_exponent, operations, pc, args, operation,
              redirect_location, retries, redirects, outfile, result,
              attempts, trace, initial_backoff, conc_vars, request,
              xml_vars, io_vars, list_vars>>

\* path = self._get_path(bucket, key)
CreatePath ==
  /\ path = None
  /\ path' = GetPath(request.bucket, request.key)
  /\ UNCHANGED string_to_sign
  /\ RequestFrame

\* _get_request_headers builds the headers and calls _get_authentication
\* with the path, which writes string_to_sign.
SignRequest ==
  /\ path # None
  /\ string_to_sign = None
  /\ string_to_sign' =
       StringToSign(request.http_method, path, request.query_parameters,
                    GetRequestHeadersWith(cfg.host, request.date,
                                          request.extra_headers))
  /\ UNCHANGED path
  /\ RequestFrame

RequestNext == CreatePath \/ SignRequest

SpecRequest == RequestInit /\ [][RequestNext]_vars

-----------------------------------------------------------------------------
(* An ACL object is written with to_xml() and the document is read back    *)
(* with parse_xml; or a document received from the service is read.        *)

XmlInit ==
  /\ cfg = RequestConfig
  /\ backoff_exponent = BackoffOff
  /\ operations = <<>>
  /\ pc = "idle"
  /\ args = NoCall
  /\ operation = GsOperation
  /\ redirect_location = None
  /\ retries = 0
  /\ redirects = 0
  /\ outfile = <<>>
  /\ result = NoResult
  /\ attempts = 0
  /\ trace = <<>>
  /\ initial_backoff = BackoffOff
  /\ threads = NoThreads
  /\ overlapped = FALSE
  /\ request = NoRequest
  /\ path = None
  /\ string_to_sign = None
  /\ acl \in Acls \cup {EmptyAcl}
  /\ xml_str \in (IF acl = EmptyAcl THEN ReceivedDocuments ELSE {None})
  /\ parsed = NoAcl
  /\ sleeps = <<>>
  /\ open_connections = 0
  /\ infile_pos = 0
  /\ sent = <<>>
  /\ list_str = None
  /\ listing = NoListing

\* What the XML operations leave alone.
XmlFrame ==
  UNCHANGED <<cfg, backoff_exponent, operations, pc, args, operation,
              redirect_location, retries, redirects, outfile, result,
              attempts, trace, initial_backoff, conc_vars, req_vars, acl,
              io_vars, list_vars>>

\* xml_str = acl.to_xml()
ToXmlStep ==
  /\ xml_str = None
  /\ xml_str' = AclToXml(acl)
  /\ UNCHANGED parsed
  /\ XmlFrame

\* GsAccessControlList().parse_xml(xml_str)
ParseXmlStep ==
  /\ xml_str # None
  /\ parsed = NoAcl
  /\ parsed' = ParseXml(xml_str)
  /\ UNCHANGED xml_str
  /\ XmlFrame

XmlNext == ToXmlStep \/ ParseXmlStep

SpecXml == XmlInit /\ [][XmlNext]_vars

-----------------------------------------------------------------------------
(* A ListBucketResult document received from the service is read with      *)
(* GsListBucketResult.parse_xml.                                            *)

ListInit ==
  /\ cfg = RequestConfig
  /\ backoff_exponent = BackoffOff
  /\ operations = <<>>
  /\ pc = "idle"
  /\ args = NoCall
  /\ operation = GsOperation
  /\ redirect_location = None
  /\ retries = 0
  /\ redirects = 0
  /\ outfile = <<>>
  /\ result = NoResult
  /\ attempts = 0
  /\ trace = <<>>
  /\ initial_backoff = BackoffOff
  /\ threads = NoThreads
  /\ overlapped = FALSE
  /\ request = NoRequest
  /\ path = None
  /\ string_to_sign = None
  /\ acl = EmptyAcl
  /\ xml_str = None
  /\ parsed = NoAcl
  /\ sleeps = <<>>
  /\ open_connections = 0
  /\ infile_pos = 0
  /\ sent = <<>>
  /\ list_str \in ListDocuments
  /\ listing = NoListing

\* GsListBucketResult().parse_xml(list_str)
ListParseXmlStep ==
  /\ listing = NoListing
  /\ listing' = ListParseXml(list_str)
  /\ UNCHANGED <<cfg, backoff_exponent, operations, pc, args, operation,
                 redirect_location, retries, redirects, outfile, result,
                 attempts, trace, initial_backoff, conc_vars, req_vars,
                 xml_vars, io_vars, list_str>>

ListNext == ListParseXmlStep

SpecList == ListInit /\ [][ListNext]_vars

-----------------------------------------------------------------------------
(* Properties. *)

Max(a, b) == IF a > b THEN a ELSE b

\* The response statuses of a list of operations.
StatusesOf(ops) == [i \in 1..Len(ops) |-> ops[i].response_status]

\* The transport answered every attempt of the call so far with a complete
\* response, and the statuses of these responses are seq.
Answered(seq) ==
  /\ Len(trace) = Len(seq)
  /\ \A i \in 1..Len(trace) :
       trace[i].kind = "response" /\ trace[i].status = seq[i]

\* The call uses the default success and retryable sets.
DefaultSets ==
  /\ args.success_status_codes = DEFAULT_SUCCESS_CODES
  /\ args.retryable_status_codes = DEFAULT_RETRYABLE_CODES

\* C1: the backoff exponent starts at -1, is an integer in [-1, 5] in every
\* reachable state, and no step (so no attempt) changes it by more than 1.
C1_BackoffRange ==
  /\ backoff_exponent = -1
  /\ [](backoff_exponent \in -1..5)
  /\ [][backoff_exponent' - backoff_exponent \in {-1, 0, 1}]_vars

\* A call that started with the exponent at its maximum has failed with a
\* fatal or retryable status, and the exponent is still at the maximum.
C1_Witness ==
  /\ pc = "done"
  /\ result.kind = "GsError"
  /\ initial_backoff = 5
  /\ backoff_exponent = 5

\* C2: with max_retries = 5 and the default sets, a call answered with the
\* statuses 503, 503, 200 has returned normally, and its diagnostic list holds
\* exactly 3 operations with the statuses 503, 503, 200 in that order.
C2_RetryThenSuccess ==
  (cfg.max_retries = 5 /\ DefaultSets /\ Answered(<<503, 503, 200>>))
  => /\ pc = "done"
     /\ result.kind = "returned"
     /\ Len(result.operations) = 3
     /\ StatusesOf(result.operations) = <<503, 503, 200>>

C2_Witness ==
  /\ cfg.max_retries = 5
  /\ DefaultSets
  /\ Answered(<<503, 503, 200>>)
  /\ result.kind = "returned"

\* C3, as claimed: after a call answered with 503, 503, 200 (max_retries = 5)
\* the backoff exponent is max(-1, initial - 1).
C3_AsClaimed ==
  (cfg.max_retries = 5 /\ DefaultSets /\ Answered(<<503, 503, 200>>))
  => backoff_exponent = Max(-1, initial_backoff - 1)

\* C3, amended: after a call answered with 503, 503, 200 (max_retries = 5)
\* the backoff exponent is min(5, initial + 2) - 1: two increments capped at
\* 5, then one decrement.
C3_BackoffAfterRetries ==
  (cfg.max_retries = 5 /\ DefaultSets /\ Answered(<<503, 503, 200>>))
  => /\ pc = "done"
     /\ backoff_exponent = Min(5, initial_backoff + 2) - 1

\* The call started with the exponent at 4, so that the second increment is
\* capped.
C3_Witness ==
  /\ cfg.max_retries = 5
  /\ DefaultSets
  /\ Answered(<<503, 503, 200>>)
  /\ pc = "done"
  /\ initial_backoff = 4
  /\ backoff_exponent = 4

\* Every attempt of the call so far was answered with a complete response
\* whose status the call retries (a retryable status that is neither a success
\* nor a redirect).
AllRetryable ==
  /\ Len(trace) > 0
  /\ \A i \in 1..Len(trace) :
       /\ trace[i].kind = "response"
       /\ trace[i].status \in args.retryable_status_codes
       /\ trace[i].status \notin args.success_status_codes \cup REDIRECT_CODES

\* Every attempt of the call so far was answered with a complete redirect
\* response that carries a location header.
AllRedirect ==
  /\ Len(trace) > 0
  /\ \A i \in 1..Len(trace) :
       /\ trace[i].kind = "response"
       /\ trace[i].status \in REDIRECT_CODES \ args.success_status_codes
       /\ trace[i].location # None

\* The call has raised ServiceFailure with the n operations of the call.
RaisedWith(n) ==
  /\ result.kind = "GsError"
  /\ result.operations = operations
  /\ Len(result.operations) = n

ExpectedTarget(location) ==
  CASE location = LocOtherHost ->
         [host |-> OtherHostChars, port |-> 80, path_and_query |-> OtherPathChars]
    [] location = LocWithPort ->
         [host |-> <<"h", "2">>, port |-> 8080,
          path_and_query |-> <<"/", "k", "?", "a", "c", "l">>]
    [] location = LocEmpty ->
         [host |-> <<>>, port |-> 80, path_and_query |-> <<>>]

\* Attempt i was answered with a redirect that the call follows: a complete
\* response with a redirect status that is no success status, with a
\* location header.
RedirectAt(i) ==
  /\ trace[i].kind = "response"
  /\ trace[i].status \in REDIRECT_CODES \ args.success_status_codes
  /\ trace[i].location # None

\* Operation number i + 1 is sent to the location of the response number i,
\* with the method of operation number i.
SentToLocation(i) ==
  /\ operations[i + 1].connection_host = ExpectedTarget(trace[i].location).host
  /\ operations[i + 1].connection_port = ExpectedTarget(trace[i].location).port
  /\ operations[i + 1].request_path_and_query =
       ExpectedTarget(trace[i].location).path_and_query
  /\ operations[i + 1].request_method = operations[i].request_method

\* With no proxy, a 301 with the location http://otherhost/bucket2/key2
\* followed by 200 gives a normal return with exactly 2 operations, the
\* second sent to otherhost with the path /bucket2/key2.
RedirectExample ==
  (/\ cfg.proxy_host = None
   /\ cfg.max_redirects >= 1
   /\ 200 \in args.success_status_codes
   /\ Answered(<<301, 200>>)
   /\ trace[1].location = LocOtherHost)
  => /\ pc = "done"
     /\ result.kind = "returned"
     /\ Len(result.operations) = 2
     /\ result.operations[2].connection_host = OtherHostChars
     /\ result.operations[2].request_path_and_query = OtherPathChars
     /\ result.operations[2].request_method = result.operations[1].request_method

\* The call goes on after the redirect at the last attempt so far when the
\* redirect budget is not exhausted.
GoesOnAfterRedirect ==
  (/\ Len(trace) > 0
   /\ Len(operations) = Len(trace)
   /\ RedirectAt(Len(trace))
   /\ redirects <= cfg.max_redirects)
  => pc = "while" /\ LoopCondition

\* C5, as claimed: with no proxy, after a redirect with a location header the
\* next attempt is sent to the host, port, path and query of the location,
\* with the same method.
C5_AsClaimed ==
  /\ cfg.proxy_host = None
     => \A i \in 1..(Len(operations) - 1) : RedirectAt(i) => SentToLocation(i)
  /\ GoesOnAfterRedirect
  /\ RedirectExample

\* C5, amended: the same for a redirect whose location header is not empty.
C5_RedirectTarget ==
  /\ cfg.proxy_host = None
     => \A i \in 1..(Len(operations) - 1) :
          (RedirectAt(i) /\ trace[i].location # <<>>) => SentToLocation(i)
  /\ GoesOnAfterRedirect
  /\ RedirectExample

C5_Witness ==
  /\ cfg.proxy_host = None
  /\ Answered(<<301, 200>>)
  /\ trace[1].location = LocOtherHost
  /\ result.kind = "returned"
  /\ Len(result.operations) = 2
  /\ result.operations[2].connection_host = OtherHostChars

\* s is t or the start of t.
IsPrefix(s, t) == Len(s) <= Len(t) /\ SubSeq(t, 1, Len(s)) = s

\* The status the transport answered attempt i with, 0 when it raised before
\* the response.
AnsweredStatus(i) ==
  IF trace[i].kind = "error" /\ trace[i].stage = "connect" THEN 0
  ELSE trace[i].status

\* C6: within a call the diagnostic list is an append-only log: in every
\* state it holds one operation per attempt made so far, in attempt order,
\* whatever the way each attempt ended; no step of the call removes or
\* reorders earlier entries; a raised ServiceFailure carries the whole list.
C6_AppendOnlyLog ==
  /\ [](/\ Len(operations) = attempts
        /\ Len(trace) = attempts
        /\ \A i \in 1..Len(operations) :
             operations[i].response_status = AnsweredStatus(i)
        /\ (result.kind = "GsError"
            => result.operations = operations))
  /\ [][(pc \in {"while", "raise"}) => IsPrefix(operations, operations')]_vars

\* The second attempt of a call raised another exception than IncompleteRead
\* while the body was read, and the list has both operations.
C6_Witness ==
  /\ pc = "done"
  /\ result.kind = "HTTPException"
  /\ Len(trace) = 2
  /\ trace[2].stage = "read"
  /\ Len(operations) = 2

\* C7: a call has returned normally if and only if its last attempt was
\* answered with a status of the call's success set and the attempt ran to
\* its end; the return hands over the diagnostic list and the step that
\* returns decrements the backoff exponent, not below -1; a call is left in
\* no other way than by the return or by an exception.
C7_OnlySuccessReturns ==
  /\ [](pc = "done"
        => /\ (result.kind = "returned"
               <=> /\ Len(operations) > 0
                   /\ Len(operations) = Len(trace)
                   /\ Last(trace).kind = "response"
                   /\ Last(operations).response_status
                        \in args.success_status_codes)
           /\ (result.kind = "returned" => result.operations = operations)
           /\ result.kind \in {"returned", "GsError", "HTTPException",
                               "TypeError", "KeyError", "ValueError"})
  /\ [][(pc = "while" /\ result'.kind = "returned")
        => backoff_exponent' = Max(-1, backoff_exponent - 1)]_vars

\* A delete_bucket call answered with 200, which is no success of this call,
\* has raised; and the exponent was above -1 when the call started.
C7_Witness ==
  /\ pc = "done"
  /\ args.success_status_codes = DEL_BUCKET_SUCCESS_CODES
  /\ Len(operations) = 1
  /\ operations[1].response_status = 200
  /\ result.kind = "GsError"
  /\ initial_backoff = 2

\* C8: no partial successes: a call with a byte sink that has returned
\* normally has written to the sink exactly the complete body of the response
\* whose success status it observed (every other call has raised).
C8_NoPartialSuccess ==
  (pc = "done" /\ args.outfile /\ result.kind = "returned")
  => outfile = BodyOf(Last(operations).response_status)

\* The step is an attempt of the running call.
AttemptStep == pc = "while" /\ attempts' = attempts + 1

\* C9: an attempt writes bytes to the byte sink only if the status of its
\* response is in the call's success set and the request method is not HEAD;
\* an attempt with another method that is answered with a complete response
\* of any other status stores the body in response_error_body and writes
\* nothing to the sink.
C9_SinkOnlyOnSuccess ==
  [][AttemptStep
     => /\ (outfile' # outfile
            => /\ Last(operations').response_status
                    \in args.success_status_codes
               /\ Last(operations').request_method # "HEAD")
        /\ (/\ Last(trace').kind = "response"
            /\ Last(operations').request_method # "HEAD"
            /\ Last(operations').response_status
                 \notin args.success_status_codes)
           => /\ Last(operations').response_error_body
                   = BodyOf(Last(trace').status)
              /\ outfile' = outfile]_vars

\* A call with a byte sink was answered with 404: the body of the response is
\* in the operation and the sink is empty.
C9_Witness ==
  /\ args.outfile
  /\ Len(operations) = 1
  /\ operations[1].response_status = 404
  /\ operations[1].response_error_body = BodyOf(404)
  /\ outfile = <<>>

\* C10: a complete response whose status is in none of the success set, the
\* redirect codes and the retryable set increments the backoff exponent
\* (capped at 5) and leaves the loop, whatever retries and redirects remain;
\* the only step after it raises ServiceFailure, without a further attempt.
C10_FatalStatus ==
  /\ [][(/\ AttemptStep
         /\ Last(trace').kind = "response"
         /\ Last(trace').status \notin
              args.success_status_codes \cup REDIRECT_CODES
                \cup args.retryable_status_codes)
        => /\ pc' = "raise"
           /\ backoff_exponent' = Min(5, backoff_exponent + 1)
           /\ retries' = retries
           /\ redirects' = redirects]_vars
  /\ [][(pc = "raise")
        => /\ pc' = "done"
           /\ result'.kind = "GsError"
           /\ result'.operations = operations
           /\ attempts' = attempts
           /\ backoff_exponent' = backoff_exponent]_vars

\* A client with all of its 5 retries left has raised ServiceFailure after a
\* single attempt answered with 404.
C10_Witness ==
  /\ pc = "done"
  /\ cfg.max_retries = 5
  /\ retries = 0
  /\ DefaultSets
  /\ Answered(<<404>>)
  /\ RaisedWith(1)
  /\ backoff_exponent = initial_backoff + 1

\* C11, as claimed: an attempt whose body transfer ends with an incomplete
\* read, whatever its response status, records the operation with the error
\* body 'IncompleteRead: n bytes read', increments retries and the backoff
\* exponent (capped at 5), and stays in the loop: no exception leaves the call
\* in that attempt.
C11_IncompleteReadRetried ==
  [][(AttemptStep /\ Last(trace').kind = "incomplete")
     => /\ Last(operations').response_error_body
             = IncompleteReadMessage(Last(trace').failAt)
        /\ retries' = retries + 1
        /\ backoff_exponent' = Min(5, backoff_exponent + 1)
        /\ redirects' = redirects
        /\ pc' = "while"
        /\ result' = NoResult]_vars

\* C12: an attempt in which the transport raises another exception than an
\* incomplete read, before the response or while the body is read, leaves the
\* call with that exception and not with ServiceFailure; the step changes
\* none of retries, redirects and the backoff exponent, and no attempt of the
\* call follows it.
C12_OtherExceptionsPropagate ==
  /\ [][(AttemptStep /\ Last(trace').kind = "error")
        => /\ pc' = "done"
           /\ result'.kind = "HTTPException"
           /\ retries' = retries
           /\ redirects' = redirects
           /\ backoff_exponent' = backoff_exponent]_vars
  /\ []((Len(trace) > 0 /\ Last(trace).kind = "error")
        => pc = "done" /\ result.kind = "HTTPException")
  /\ [](result.kind = "HTTPException" => Last(trace).kind = "error")

\* After one retry (a 503) the connection of the second attempt failed: the
\* call has raised the transport's exception with one retry counted and the
\* exponent one above its value at the start of the call.
C12_Witness ==
  /\ pc = "done"
  /\ result.kind = "HTTPException"
  /\ Len(trace) = 2
  /\ trace[1].kind = "response"
  /\ trace[1].status = 503
  /\ trace[2].stage = "connect"
  /\ retries = 1
  /\ backoff_exponent = initial_backoff + 1

\* The attempt of this step was answered with a complete response.
AnsweredStep == AttemptStep /\ Last(trace').kind = "response"

\* The call returns in this step exactly for the statuses of success, and is
\* retried in this step (retries incremented, the loop goes on) exactly for
\* the statuses of retryable that are neither a success nor a redirect.
SetsInEffect(success, retryable) ==
  /\ result'.kind = "returned" <=> Last(trace').status \in success
  /\ (retries' = retries + 1 /\ pc' = "while")
     <=> Last(trace').status \in retryable \ (success \cup {301, 302, 303, 307})

\* C13: the status sets are chosen per facade operation: get_object succeeds
\* on 200 and 206; delete_bucket succeeds only on 204 and retries on 404 and
\* 409 besides 408, 500, 502, 503, 504; delete_object succeeds only on 204 and
\* retries only on the default set, so that a 404 ends it with ServiceFailure
\* after that single attempt; every other facade operation succeeds only on
\* 200 and retries only on 408, 500, 502, 503, 504.
C13_StatusSetsPerFacade ==
  /\ \A a \in DefaultFacadeCalls :
        /\ a.success_status_codes = {200}
        /\ a.retryable_status_codes = {408, 500, 502, 503, 504}
  /\ [][AnsweredStep
        => CASE args = get_object(BucketChars, KeyChars, 1) ->
                  SetsInEffect({200, 206}, {408, 500, 502, 503, 504})
             [] args = delete_bucket(BucketChars) ->
                  SetsInEffect({204}, {404, 408, 409, 500, 502, 503, 504})
             [] args = delete_object(BucketChars, KeyChars) ->
                  SetsInEffect({204}, {408, 500, 502, 503, 504})
             [] OTHER ->
                  /\ args \in DefaultFacadeCalls
                  /\ SetsInEffect({200}, {408, 500, 502, 503, 504})]_vars
  /\ []((/\ args = delete_object(BucketChars, KeyChars)
         /\ Len(trace) > 0
         /\ trace[1].kind = "response"
         /\ trace[1].status = 404)
        => /\ Len(trace) = 1
           /\ pc \in {"raise", "done"}
           /\ (pc = "done" => RaisedWith(1)))

\* A delete_object call on a client with 5 retries has raised ServiceFailure
\* after a single attempt answered with 404.
C13_Witness ==
  /\ pc = "done"
  /\ args = delete_object(BucketChars, KeyChars)
  /\ cfg.max_retries = 5
  /\ Answered(<<404>>)
  /\ RaisedWith(1)

\* The step is the start of a send_request call.
CallStep == pc \in {"idle", "done"} /\ pc' = "while"

\* C14: every call starts with an empty diagnostic list and with fresh
\* counters, so the list a call returns or raises holds one operation per
\* attempt of that call, in order, and nothing else; the backoff exponent is
\* the one thing a call takes over from the calls before it: the start of a
\* call does not reset it.
C14_PerCallList ==
  /\ [][CallStep
        => /\ operations' = <<>>
           /\ retries' = 0
           /\ redirects' = 0
           /\ redirect_location' = None
           /\ backoff_exponent' = backoff_exponent]_vars
  /\ [](result.kind \in {"returned", "GsError"}
        => /\ Len(result.operations) = attempts
           /\ \A i \in 1..Len(result.operations) :
                /\ result.operations[i].response_status = AnsweredStatus(i)
                /\ result.operations[i].request_method = args.http_method)

\* A call that started with the exponent at 1, reached in earlier calls of
\* more than one attempt on the same client, has returned a list with the
\* one operation of its own attempt.
C14_Witness ==
  /\ pc = "done"
  /\ result.kind = "returned"
  /\ initial_backoff = 1
  /\ attempts = 1
  /\ Len(result.operations) = 1

\* Caller t has left send_request with the list of the operations of its own
\* attempts, in order.
OwnList(t) == threads[t].result.operations = threads[t].own

\* C15: two unsynchronised calls on one client race on the diagnostic list
\* and on the backoff exponent. As long as the calls have not overlapped,
\* every finished call was handed the operations of its own attempts and the
\* exponent is in [-1, 5]; with two callers the exponent never leaves
\* [-2, 6]. The races themselves are the reachable state C15_Witness.
C15_RacesOnlyWhenConcurrent ==
  /\ ~overlapped
     => /\ backoff_exponent \in -1..5
        /\ \A t \in Threads : threads[t].pc = "done" => OwnList(t)
  /\ backoff_exponent \in -2..6

\* Both calls are over; one caller was handed a list that is not the
\* sequence of its own attempts, and the exponent has left [-1, 5].
C15_Witness ==
  /\ \A t \in Threads : threads[t].pc = "done"
  /\ \E t \in Threads : ~OwnList(t)
  /\ backoff_exponent \notin -1..5

\* The lines of the string-to-sign.
SignedLines == Split(string_to_sign, "\n")

\* The x-goog- headers of the request, in the order of their names.
XGoogHeaders ==
  SelectSeq(<<"x-goog-acl", "x-goog-date", "x-goog-meta-a">>,
            LAMBDA h : h \in DOMAIN request.extra_headers)

\* The line of an x-goog- header of the request.
XGoogLine(h) ==
  CASE h = "x-goog-acl" -> <<"x", "-", "g", "o", "o", "g", "-", "a", "c", "l", ":", "p", "r", "i",
          "v", "a", "t", "e">>
    [] h = "x-goog-date" -> <<"x", "-", "g", "o", "o", "g", "-", "d", "a", "t", "e", ":", "W", "e",
          "d", ",", " ", "0", "2", " ", "J", "a", "n", " ", "2", "0", "1", "3">>
    [] h = "x-goog-meta-a" -> <<"x", "-", "g", "o", "o", "g", "-", "m", "e", "t", "a", "-", "a", ":",
          "1">>

\* The request of the example: GET, Date Tue, 01 Jan 2013 00:00:00 GMT,
\* headers x-goog-acl: private and x-goog-meta-a: 1, path /bucket/key and
\* query {acl: None}.
ExampleRequest ==
  /\ request.http_method = "GET"
  /\ request.bucket = ExampleBucketChars
  /\ request.key = KeyChars
  /\ request.query_parameters = <<[name |-> AclChars, val |-> None]>>
  /\ DOMAIN request.extra_headers = {"x-goog-acl", "x-goog-meta-a"}
  /\ request.date = ExampleDateChars

\* The string-to-sign of the example.
ExampleStringToSign ==
  <<"G", "E", "T", "\n">>
  \o <<"\n">>
  \o <<"\n">>
  \o <<"T", "u", "e", ",", " ", "0", "1", " ", "J", "a", "n", " ", "2", "0",
          "1", "3", " ", "0", "0", ":", "0", "0", ":", "0", "0", " ", "G", "M",
          "T", "\n">>
  \o <<"x", "-", "g", "o", "o", "g", "-", "a", "c", "l", ":", "p", "r", "i",
          "v", "a", "t", "e", "\n">>
  \o <<"x", "-", "g", "o", "o", "g", "-", "m", "e", "t", "a", "-", "a", ":",
          "1", "\n">>
  \o <<"/", "b", "u", "c", "k", "e", "t", "/", "k", "e", "y", "?", "a", "c",
          "l">>

\* C16: the string-to-sign is, line by line: the method; the Content-MD5
\* value if present, else nothing; the Content-Type value if present, else
\* nothing; the Date value, nothing when an x-goog-date header is present;
\* one line name:value for every x-goog- header, in the order of the header
\* names; then the path with its subresource. For the example request it is
\* GET\n\n\nTue, 01 Jan 2013 00:00:00 GMT\nx-goog-acl:private\n
\* x-goog-meta-a:1\n/bucket/key?acl.
C16_StringToSign ==
  string_to_sign # None
  => /\ Len(SignedLines) = 5 + Len(XGoogHeaders)
     /\ SignedLines[1] = MethodChars(request.http_method)
     /\ SignedLines[2] = (IF "Content-MD5" \in DOMAIN request.extra_headers
                          THEN <<"m", "d", "5">> ELSE <<>>)
     /\ SignedLines[3] = (IF "Content-Type" \in DOMAIN request.extra_headers
                          THEN ExtraHeaderValue("Content-Type") ELSE <<>>)
     /\ SignedLines[4] = (IF "x-goog-date" \in DOMAIN request.extra_headers
                          THEN <<>> ELSE request.date)
     /\ \A i \in 1..Len(XGoogHeaders) :
          SignedLines[4 + i] = XGoogLine(XGoogHeaders[i])
     /\ StartsWith(Last(SignedLines), path)
     /\ (ExampleRequest => string_to_sign = ExampleStringToSign)

\* The request of the example has been signed.
C16_Witness ==
  /\ ExampleRequest
  /\ string_to_sign = ExampleStringToSign

\* The keys of the query parameters of the request.
RequestKeys == QueryKeys(request.query_parameters)

\* C17: the signed resource, the last line of the string-to-sign, is the
\* path followed by ?acl if acl is a key of the query parameters, else by
\* ?location if location is one, else by ?logging, else by ?torrent, else by
\* nothing: whatever the order the parameters are listed in and whatever
\* their values; no second subresource and no other parameter is signed.
C17_OneSubresource ==
  string_to_sign # None
  => Last(SignedLines)
       = path \o (IF AclChars \in RequestKeys THEN <<"?", "a", "c", "l">>
                  ELSE IF LocationChars \in RequestKeys THEN <<"?", "l", "o", "c", "a", "t", "i", "o", "n">>
                  ELSE IF LoggingChars \in RequestKeys THEN <<"?", "l", "o", "g", "g", "i", "n", "g">>
                  ELSE IF TorrentChars \in RequestKeys THEN <<"?", "t", "o", "r", "r", "e", "n", "t">>
                  ELSE <<>>)

\* A request whose parameters list torrent (with a value) before location
\* has been signed with ?location.
C17_Witness ==
  /\ string_to_sign # None
  /\ Len(request.query_parameters) = 2
  /\ request.query_parameters[1] = [name |-> TorrentChars, val |-> <<"1">>]
  /\ request.query_parameters[2].name = LocationChars
  /\ Last(SignedLines) = path \o <<"?", "l", "o", "c", "a", "t", "i", "o", "n">>

\* The percent-encoding of the names of the model, with the slash kept.
EncodedName(name) ==
  CASE name = ExampleBucketChars -> ExampleBucketChars
    [] name = MyBucketChars -> <<"m", "y", "%", "2", "0", "b", "u", "c", "k", "e", "t">>
    [] name = KeyChars -> KeyChars
    [] name = SlashKeyChars -> <<"a", "/", "b", "%", "2", "0", "c">>

OwnerIdElems ==
  IF Len(GetElementsByTagName(ParseString(xml_str), OwnerTag)) > 0
  THEN GetElementsByTagName(
         Last(GetElementsByTagName(ParseString(xml_str), OwnerTag)), IdTag)
  ELSE <<>>

C20_AclRoundTrip ==
  (parsed # NoAcl /\ Len(acl.entries) >= 1)
  => /\ parsed.owner_id = acl.owner_id
     /\ parsed.owner_name = acl.owner_name
     /\ Len(parsed.entries) = Len(acl.entries)
     /\ \A i \in 1..Len(acl.entries) :
          /\ parsed.entries[i].permission = acl.entries[i].permission
          /\ parsed.entries[i].scope_type = acl.entries[i].scope_type
          /\ parsed.entries[i].scope_user_id = acl.entries[i].scope_user_id
          /\ parsed.entries[i].scope_user_name
               = acl.entries[i].scope_user_name
          /\ parsed.entries[i].scope_email = acl.entries[i].scope_email
          /\ parsed.entries[i].scope_domain = acl.entries[i].scope_domain

\* An ACL without owner fields, whose first entry has all fields empty and
\* whose second entry has a user name with & and a domain with < and >, has
\* been written and read back, with both entries.
C20_Witness ==
  /\ parsed # NoAcl
  /\ acl.owner_id = <<>>
  /\ Len(acl.entries) = 2
  /\ acl.entries[1] = EmptyEntry
  /\ acl.entries[2].scope_user_name = <<"A", "&", "B">>
  /\ acl.entries[2].scope_type = <<>>
  /\ Len(parsed.entries) = 2
  /\ parsed.entries[1] = EmptyEntry
  /\ parsed.entries[2].scope_domain = <<"<", "d", ">">>

\* The elements that are children of the root element of the document and
\* have the given name.
TopLevelElems(text, tag) ==
  SelectSeq(ParseString(text).childNodes[1].childNodes,
            LAMBDA n : n.nodeType = "element" /\ n.tagName = tag)

\* C21: after GsListBucketResult.parse_xml, prefix is the value of the
\* listing's own top-level Prefix element, the prefix of the request, also
\* when CommonPrefixes elements with Prefix children follow it; the values of
\* those children are in common_prefixes, in document order.
C21_PrefixOfRequest ==
  listing # NoListing
  => /\ listing.prefix
          = ValueFromElems(TopLevelElems(list_str, ListTag("Prefix")))
     /\ Len(listing.common_prefixes)
          = Len(TopLevelElems(list_str, ListTag("CommonPrefixes")))
     /\ \A i \in 1..Len(listing.common_prefixes) :
          listing.common_prefixes[i]
            = ValueFromElems(GetElementsByTagName(
                TopLevelElems(list_str, ListTag("CommonPrefixes"))[i],
                ListTag("Prefix")))

\* The attempts of the call made after an attempt that ended with a
\* retryable failure (neither a success nor a redirect), and those made for
\* a redirect that was followed.
AttemptsAfterRetryable ==
  {i \in 2..Len(operations) :
     /\ ~IsSuccess(args, operations[i - 1].response_status)
     /\ ~IsRedirect(operations[i - 1].response_status)}

RedirectsFollowed ==
  {i \in 2..Len(operations) :
     /\ ~IsSuccess(args, operations[i - 1].response_status)
     /\ IsRedirect(operations[i - 1].response_status)}

\* The counts of C22 in a state.
AttemptsBounded ==
  /\ attempts = Len(operations)
  /\ Cardinality(AttemptsAfterRetryable) <= cfg.max_retries
  /\ Cardinality(RedirectsFollowed) <= cfg.max_redirects
  /\ attempts <= cfg.max_retries + cfg.max_redirects + 1
  /\ retries <= cfg.max_retries + 1
  /\ redirects <= cfg.max_redirects + 1

SleepSeconds == {1, 2, 4, 8, 16, 32}

\* What every step does to the sleeps of the call: a pass of the loop body
\* that makes an attempt has slept once, for 2^exponent seconds, before it if
\* the exponent was >= 0 and not at all if it was -1; a pass that ends with
\* the ValueError of _create_redirect_operation has slept in the same way
\* and makes no attempt; the raise after the loop sleeps not; a new call
\* starts without sleeps.
SleepOfStep ==
  /\ AttemptStep =>
       sleeps' = IF backoff_exponent >= 0
                 THEN Append(sleeps, 2 ^ backoff_exponent) ELSE sleeps
  /\ (pc = "while" /\ pc' = "done" /\ ~AttemptStep) =>
       IF result'.kind = "ValueError"
       THEN sleeps' = IF backoff_exponent >= 0
                      THEN Append(sleeps, 2 ^ backoff_exponent) ELSE sleeps
       ELSE sleeps' = sleeps
  /\ (pc = "raise") => sleeps' = sleeps
  /\ CallStep => sleeps' = <<>> /\ backoff_exponent' = backoff_exponent
  /\ \A i \in DOMAIN sleeps' : sleeps'[i] \in SleepSeconds

\* The call that ended raised ServiceFailure after a last attempt that was
\* not answered with a redirect status: its retries were used up, or its
\* last response had a fatal status.
FailedWithoutRedirect ==
  /\ pc = "done"
  /\ result.kind = "GsError"
  /\ operations # <<>>
  /\ ~IsRedirect(Last(operations).response_status)

\* The call that ended did not return.
Failed == pc = "done" /\ result.kind # "returned"

C24_CountersApart ==
  [][AnsweredStep =>
       LET status == Last(trace').status
           headers == Last(operations').response_headers
       IN  /\ ( /\ status \notin args.success_status_codes
                /\ status \in REDIRECT_CODES
                /\ "location" \in DOMAIN headers ) =>
                  /\ redirects' = redirects + 1
                  /\ retries' = retries
                  /\ backoff_exponent' =
                       IF backoff_exponent = -1 THEN -1
                       ELSE backoff_exponent - 1
                  /\ pc' = "while"
           /\ ( /\ status \notin args.success_status_codes
                /\ status \notin REDIRECT_CODES
                /\ status \in args.retryable_status_codes ) =>
                  /\ retries' = retries + 1
                  /\ redirects' = redirects
                  /\ backoff_exponent' =
                       IF backoff_exponent = 5 THEN 5
                       ELSE backoff_exponent + 1
                  /\ pc' = "while"]_vars

\* A call has been answered with a retryable status and then with a
\* redirect: one retry, one redirect, and the exponent back where it was.
C24_Witness ==
  /\ pc = "while"
  /\ Answered(<<503, 301>>)
  /\ retries = 1
  /\ redirects = 1
  /\ backoff_exponent = initial_backoff

\* The last attempt ended with a retryable failure: a response with a
\* status that is no redirect (the loop went on, so it was a retryable
\* one), or an incomplete read that was counted as a retry.
AfterRetryableFailure ==
  /\ attempts >= 1
  /\ \/ Last(trace).kind = "incomplete"
     \/ Last(trace).status \notin REDIRECT_CODES

\* C26: the attempt after a retryable failure is made for a fresh operation
\* with the method, the path of bucket and key, the query string and the
\* headers of the call, sent to the configured host or to the proxy; also
\* when the failed attempt was made for a redirect operation.
C26_FreshAfterRetryable ==
  [][(AttemptStep /\ AfterRetryableFailure) =>
       LET op == Last(operations')
       IN  /\ op.connection_host =
                IF cfg.proxy_host # None THEN cfg.proxy_host ELSE cfg.host
           /\ op.connection_port =
                IF cfg.proxy_host # None THEN cfg.proxy_port ELSE 80
           /\ op.request_method = args.http_method
           /\ op.request_path_and_query =
                GetPath(args.bucket, args.key)
                \o GetQueryString(args.query_parameters)
           /\ op.request_headers["Host"] = cfg.host
           /\ op.request_headers = RequestHeaders(cfg, args, attempts)]_vars

\* A call was redirected to another host, got a retryable status there, and
\* made its third attempt at the configured host with the path of the call.
C26_Witness ==
  /\ attempts = 3
  /\ cfg.proxy_host = None
  /\ Answered(<<301, 503, 200>>)
  /\ operations[2].connection_host # cfg.host
  /\ operations[2].request_path_and_query # operations[1].request_path_and_query
  /\ operations[3].connection_host = cfg.host
  /\ operations[3].request_path_and_query = operations[1].request_path_and_query

\* C27: the connection an attempt opens is closed when the attempt ends, by
\* return or by an exception of the transport, so no connection is open
\* between the attempts of a call nor when send_request has returned or
\* raised; during an attempt the one connection of that attempt is open.
C27_ConnectionsClosed == open_connections = 0

\* A call has made two attempts that both ended with an exception of the
\* transport, the first with an incomplete read of the response that was
\* counted as a retry and the second while the request was sent, and has
\* left send_request with the second.
C27_Witness ==
  /\ pc = "done"
  /\ attempts = 2
  /\ trace[1].kind = "incomplete"
  /\ trace[2].kind = "error"
  /\ trace[2].stage = "connect"
  /\ result.kind \notin {"returned", "GsError"}
  /\ open_connections = 0

\* C30: in the diagnostic list a call leaves (self.operations, which is the
\* list it returns or hands to ServiceFailure), an operation with a status
\* of the call's success set is the last entry of a list that was returned;
\* the earlier entries of a returned list have a redirect or a retryable
\* status, and the list of a call that raised has no such operation.
C30_SuccessOnlyLast ==
  pc = "done" =>
    \A i \in 1..Len(operations) :
      IF operations[i].response_status \in args.success_status_codes
      THEN result.kind = "returned" /\ i = Len(operations)
      ELSE result.kind = "returned" =>
             \/ operations[i].response_status \in REDIRECT_CODES
             \/ operations[i].response_status \in args.retryable_status_codes

\* C25: the request headers of a redirect operation are those of the
\* previous operation with only Host replaced, by the host[:port] of the
\* location; Date and Authorization are the ones made for the previous
\* operation; and the operations recorded before, the previous one
\* included, are the same after the attempt for the redirect operation.
C25_RedirectHeaders ==
  [][(AttemptStep /\ redirect_location \notin {None, <<>>}) =>
       LET previous == operations[Len(operations)].request_headers
           redirect == operations'[Len(operations')].request_headers
       IN  /\ DOMAIN redirect = DOMAIN previous
           /\ \A h \in DOMAIN previous \ {"Host"} : redirect[h] = previous[h]
           /\ redirect["Host"] = UrlParse(redirect_location).netloc
           /\ redirect["Date"] = previous["Date"]
           /\ cfg.access_key # None =>
                /\ "Authorization" \in DOMAIN redirect
                /\ redirect["Authorization"] = previous["Authorization"]
           /\ Len(operations') = Len(operations) + 1
           /\ \A i \in 1..Len(operations) : operations'[i] = operations[i]]_vars

\* A client with credentials was redirected to another host and path: the
\* second operation has the Authorization and Date headers of the first,
\* which were made for the path of the call at the time of the first attempt,
\* and another Host header.
C25_Witness ==
  /\ attempts = 2
  /\ cfg.access_key # None
  /\ cfg.proxy_host = None
  /\ operations[1].response_status = 301
  /\ operations[2].request_path_and_query # operations[1].request_path_and_query
  /\ operations[2].request_headers["Host"] # operations[1].request_headers["Host"]
  /\ operations[2].request_headers["Host"] = operations[2].connection_host
  /\ operations[2].request_headers["Authorization"]
       = Authorization(cfg, StringToSign(args.http_method,
                                         GetPath(args.bucket, args.key),
                                         args.query_parameters,
                                         [h \in {"Content-Length", "Date",
                                                 "Host", "User-Agent"} |->
                                            operations[1].request_headers[h]]))
  /\ operations[2].request_headers["Date"] = DateAt(0)
  /\ DateAt(1) # DateAt(0)

\* C28: in a call with a byte source, every attempt that gets as far as
\* writing the data sends the whole content of the source, from its first
\* byte on, wherever the source stood when the call started and after the
\* attempt before; and the Content-Length header of every operation of the
\* call is the size of the source.
C28_WholeSourceSent ==
  args.infile # None =>
    /\ Len(sent) = Len(trace)
    /\ \A i \in 1..Len(sent) :
         sent[i] = IF trace[i].kind = "error" /\ trace[i].stage = "connect"
                   THEN <<>> ELSE args.infile
    /\ \A i \in 1..Len(operations) :
         ParseInt(operations[i].request_headers["Content-Length"])
           = Len(args.infile)

\* A put_object call in chunks of two bytes made a first attempt, an attempt
\* for a redirect operation and an attempt after a retryable status, and
\* sent the three bytes of the source in each.
C28_Witness ==
  /\ attempts = 3
  /\ args.infile = InfileChars
  /\ args.chunk_size = 2
  /\ Answered(<<301, 503, 200>>)
  /\ operations[2].connection_host # operations[1].connection_host
  /\ sent = <<InfileChars, InfileChars, InfileChars>>
  /\ infile_pos = 3

\* The disposition of the call in a step that ends an attempt answered with
\* a complete response.
Returns == pc' = "done" /\ result'.kind = "returned"

Redirected ==
  /\ backoff_exponent' =
       IF backoff_exponent = -1 THEN -1 ELSE backoff_exponent - 1
  /\ \/ pc' = "while" /\ redirects' = redirects + 1 /\ retries' = retries
     \/ pc' = "done" /\ result'.kind = "KeyError"

Retried ==
  /\ pc' = "while"
  /\ retries' = retries + 1
  /\ redirects' = redirects
  /\ backoff_exponent' =
       IF backoff_exponent = 5 THEN 5 ELSE backoff_exponent + 1

Fatal ==
  /\ pc' = "raise"
  /\ backoff_exponent' =
       IF backoff_exponent = 5 THEN 5 ELSE backoff_exponent + 1

\* C29: the status of a response is tested against the success set of the
\* call first, then against the redirect codes, then against the retryable
\* set of the call: a status in the success set is a success also when it is
\* a redirect code, a redirect code outside the success set is a redirect
\* also when it is in the retryable set, and every status has exactly one of
\* the four dispositions success, redirect, retryable and fatal.
C29_ClassificationOrder ==
  [][AnsweredStep =>
       LET status == Last(trace').status
       IN  /\ Returns <=> status \in args.success_status_codes
           /\ Redirected <=>
                /\ status \notin args.success_status_codes
                /\ status \in REDIRECT_CODES
           /\ Retried <=>
                /\ status \notin args.success_status_codes
                /\ status \notin REDIRECT_CODES
                /\ status \in args.retryable_status_codes
           /\ Fatal <=>
                /\ status \notin args.success_status_codes
                /\ status \notin REDIRECT_CODES
                /\ status \notin args.retryable_status_codes]_vars

\* A send_request call whose success set contains 301 was answered 301 with a
\* location header and returned after this one attempt.
C29_Witness ==
  /\ pc = "done"
  /\ result.kind = "returned"
  /\ 301 \in args.success_status_codes
  /\ Answered(<<301>>)
  /\ trace[1].location # None
  /\ redirect_location = None

====
